---- MODULE Spec2Model ----
(***************************************************************************)
(* Aggregation and override layer of the heuristic-evaluation autograder   *)
(* (src/backend/main.py).  One submission ("job") with its persisted       *)
(* documents: per-page analysis files, pages.json, issues.json and         *)
(* scoring.json, and the request handlers that rebuild or edit them.       *)
(*                                                                         *)
(* Text that the code inspects character by character (heuristic_id,       *)
(* issue_key, text_summary, title) is a sequence of one-character strings. *)
(* An issue_id "issue_%03d" is the integer it is formatted from, and the   *)
(* sorted list pages_involved is the set it is built from.                 *)
(***************************************************************************)
EXTENDS Integers, Sequences, FiniteSets, TLC

(***************************************************************************)
(* Python string primitives                                                *)
(***************************************************************************)
Min(a, b) == IF a <= b THEN a ELSE b

Max(a, b) == IF a >= b THEN a ELSE b

\* s[:n]
Take(s, n) == SubSeq(s, 1, Min(n, Len(s)))

\* s[n:]
Drop(s, n) == SubSeq(s, n + 1, Len(s))

\* s.startswith(p)
StartsWith(s, p) == Len(s) >= Len(p) /\ SubSeq(s, 1, Len(p)) = p

\* s.replace(c, "") for a one-character c
RemoveChar(s, c) == SelectSeq(s, LAMBDA x : x # c)

\* 1-based position of the first c in s, 0 when there is none (s.find(c) + 1)
Find(s, c) ==
    IF \E i \in 1..Len(s) : s[i] = c
    THEN CHOOSE i \in 1..Len(s) : s[i] = c /\ \A j \in 1..(i - 1) : s[j] # c
    ELSE 0

\* 1-based position of the last c in s, 0 when there is none (s.rfind(c) + 1)
RFind(s, c) ==
    IF \E i \in 1..Len(s) : s[i] = c
    THEN CHOOSE i \in 1..Len(s) : s[i] = c /\ \A j \in (i + 1)..Len(s) : s[j] # c
    ELSE 0

\* s.split(c)[0]
SplitFirst(s, c) == IF Find(s, c) = 0 THEN s ELSE Take(s, Find(s, c) - 1)

\* s.strip(), with the blank as the only whitespace character
Strip(s) ==
    IF \A i \in 1..Len(s) : s[i] = " "
    THEN << >>
    ELSE LET a == CHOOSE i \in 1..Len(s) : s[i] # " " /\ \A j \in 1..(i - 1) : s[j] = " "
             b == CHOOSE i \in 1..Len(s) : s[i] # " " /\ \A j \in (i + 1)..Len(s) : s[j] = " "
         IN  SubSeq(s, a, b)

Digits == <<"0", "1", "2", "3", "4", "5", "6", "7", "8", "9">>

IsDigit(c) == \E d \in 1..10 : Digits[d] = c

DigitVal(c) == (CHOOSE d \in 1..10 : Digits[d] = c) - 1

RECURSIVE DecimalVal(_)
DecimalVal(s) ==
    IF s = << >> THEN 0
    ELSE 10 * DecimalVal(Take(s, Len(s) - 1)) + DigitVal(s[Len(s)])

\* the digits of int(s) after whitespace and an optional sign are removed
IntBody(s) ==
    LET t == Strip(s)
    IN  IF t # << >> /\ t[1] \in {"+", "-"} THEN Drop(t, 1) ELSE t

\* int(s) does not raise ValueError
IntParses(s) == IntBody(s) # << >> /\ \A i \in 1..Len(IntBody(s)) : IsDigit(IntBody(s)[i])

\* int(s), defined when IntParses(s)
IntValue(s) ==
    LET t == Strip(s)
    IN  IF t[1] = "-" THEN 0 - DecimalVal(IntBody(s)) ELSE DecimalVal(IntBody(s))

\* position of the first "::" in s, 0 when there is none
FindSep(s) ==
    IF \E i \in 1..(Len(s) - 1) : s[i] = ":" /\ s[i + 1] = ":"
    THEN CHOOSE i \in 1..(Len(s) - 1) :
             /\ s[i] = ":" /\ s[i + 1] = ":"
             /\ \A j \in 1..(i - 1) : ~(s[j] = ":" /\ s[j + 1] = ":")
    ELSE 0

RECURSIVE JoinWithSpace(_)
\* " ".join(seq)
JoinWithSpace(seq) ==
    IF seq = << >> THEN << >>
    ELSE IF Len(seq) = 1 THEN seq[1]
    ELSE seq[1] \o <<" ">> \o JoinWithSpace(Tail(seq))

RECURSIVE Flatten(_)
Flatten(seqs) == IF seqs = << >> THEN << >> ELSE seqs[1] \o Flatten(Tail(seqs))

RECURSIVE Dedup(_)
\* the distinct elements of seq in order of first occurrence (dict insertion order)
Dedup(seq) ==
    IF seq = << >> THEN << >>
    ELSE LET init == Dedup(Take(seq, Len(seq) - 1))
             last == seq[Len(seq)]
         IN  IF \E i \in 1..Len(init) : init[i] = last THEN init ELSE Append(init, last)

(***************************************************************************)
(* Pages, fragments, issues and reviews                                    *)
(***************************************************************************)
\* a page record without the page_id key
NoId == "no_page_id"

PageIdNames == <<"p01", "p02", "p03", "p04">>

\* f"p{page_number:02d}"
DefaultPageId(page_number) ==
    IF page_number \in 1..Len(PageIdNames) THEN PageIdNames[page_number] ELSE "p00"

\* page.get("page_id", f"p{page.get('page_number', 0):02d}")
PageIdOf(page) ==
    IF page.page_id = NoId THEN DefaultPageId(page.page_number) ELSE page.page_id

\* "ta_review": None, as aggregate_issues creates an Issue
NoneReview == [kind |-> "None", final_severity |-> "", final_score_0_4 |-> 0]

\* an Issue whose ta_review key was deleted
AbsentReview == [kind |-> "absent", final_severity |-> "", final_score_0_4 |-> 0]

\* issue.get("ta_review") is truthy
HasReview(issue) == issue.ta_review.kind = "review"

TitleLimit == 60

WordBreakMin == 40

MinHeuristic == 1

MaxHeuristic == 10

\* IssueTitle without the cut of a long text_summary
IssueTitle_NoCut(text_summary, heuristic_id) ==
    LET title_text == Strip(text_summary)
        first_sentence == Strip(SplitFirst(title_text, "."))
    IN  IF first_sentence # << >> /\ Len(first_sentence) <= TitleLimit
        THEN first_sentence
        ELSE IF title_text # << >> THEN title_text
        ELSE heuristic_id \o <<" ", "I", "s", "s", "u", "e">>

\* title of an Issue from the first fragment's text_summary
IssueTitle(text_summary, heuristic_id) ==
    LET title_text == Strip(text_summary)
        first_sentence == Strip(SplitFirst(title_text, "."))
        truncated == Take(title_text, TitleLimit)
        last_space == RFind(truncated, " ") - 1
    IN  IF first_sentence # << >> /\ Len(first_sentence) <= TitleLimit
        THEN first_sentence
        ELSE IF Len(title_text) > TitleLimit
        THEN IF last_space > WordBreakMin
             THEN Take(truncated, last_space) \o <<".", ".", ".">>
             ELSE truncated \o <<".", ".", ".">>
        ELSE IF title_text # << >> THEN title_text
        ELSE heuristic_id \o <<" ", "I", "s", "s", "u", "e">>

\* the fragment passes the heuristic_id checks of the grouping loop
ValidHeuristic(heuristic_id) ==
    LET heuristic_num_str == SplitFirst(RemoveChar(RemoveChar(heuristic_id, "H"), "h"), "_")
    IN  /\ heuristic_id # << >>
        /\ ~StartsWith(heuristic_id, <<"H", "x">>)
        /\ IntParses(heuristic_num_str)
        /\ IntValue(heuristic_num_str) >= MinHeuristic
        /\ IntValue(heuristic_num_str) <= MaxHeuristic

\* f"{heuristic_id}::{issue_key}"
GroupKey(frag) == frag.heuristic_id \o <<":", ":">> \o frag.issue_key

\* group_key.split("::", 1)[0]
KeyHeuristic(group_key) ==
    IF FindSep(group_key) = 0 THEN group_key ELSE Take(group_key, FindSep(group_key) - 1)

\* group_key.split("::", 1)[1]
KeyIssueKey(group_key) == Drop(group_key, FindSep(group_key) + 1)

\* the page takes part in grouping
IsCandidatePage(page) == page.page_role = "violation_detail" \/ Len(page.fragments) > 0

\* the entries one page appends to fragment_groups, in fragment order
PageItems(page) ==
    IF ~IsCandidatePage(page) THEN << >>
    ELSE LET valid == SelectSeq(page.fragments, LAMBDA f : ValidHeuristic(f.heuristic_id))
         IN  [i \in 1..Len(valid) |-> [fragment |-> valid[i], page_id |-> PageIdOf(page)]]

\* every entry of fragment_groups in the order the loop meets it
AllItems(pages) == Flatten([i \in 1..Len(pages) |-> PageItems(pages[i])])

\* the first page the defensive lookup finds for page_id has no fragments
OriginalPageEmpty(pages, page_id) ==
    LET hits == {i \in 1..Len(pages) :
                    pages[i].page_id = page_id \/ DefaultPageId(pages[i].page_number) = page_id}
    IN  hits # {} /\
        Len(pages[CHOOSE i \in hits : \A j \in hits : i <= j].fragments) = 0

SeverityRank(hint) ==
    IF hint = "minor" THEN 1 ELSE IF hint = "major" THEN 2 ELSE IF hint = "critical" THEN 3 ELSE 0

\* ai_proposed_severity of a group
MaxSeverity(all_fragments) ==
    LET hints == {all_fragments[i].severity_hint : i \in 1..Len(all_fragments)} \ {""}
        top == CHOOSE v \in {SeverityRank(h) : h \in hints} :
                   \A w \in {SeverityRank(h) : h \in hints} : w <= v
    IN  IF hints = {} THEN "major"
        ELSE IF top = 1 THEN "minor" ELSE IF top = 3 THEN "critical" ELSE "major"

\* the Issue built for one group, numbered issue_counter
MakeIssue(group_key, kept, issue_counter) ==
    LET all_fragments == [i \in 1..Len(kept) |-> kept[i].fragment]
        with_text == SelectSeq(all_fragments, LAMBDA f : f.text_summary # << >>)
    IN  [issue_id |-> issue_counter,
         heuristic_id |-> KeyHeuristic(group_key),
         issue_key |-> KeyIssueKey(group_key),
         title |-> IssueTitle(all_fragments[1].text_summary, KeyHeuristic(group_key)),
         combined_description |->
             JoinWithSpace([i \in 1..Len(with_text) |-> with_text[i].text_summary]),
         pages_involved |-> {kept[i].page_id : i \in 1..Len(kept)},
         ai_proposed_severity |-> MaxSeverity(all_fragments),
         ta_review |-> NoneReview]

RECURSIVE BuildIssues(_, _, _, _)
\* the loop over fragment_groups: keys still to visit, issues built so far
BuildIssues(pages, items, keys, issues) ==
    IF keys = << >> THEN issues
    ELSE LET group_fragments == SelectSeq(items, LAMBDA it : GroupKey(it.fragment) = keys[1])
             kept == SelectSeq(group_fragments, LAMBDA it : ~OriginalPageEmpty(pages, it.page_id))
         IN  IF kept = << >>
             THEN BuildIssues(pages, items, Tail(keys), issues)
             ELSE BuildIssues(pages, items, Tail(keys),
                              Append(issues, MakeIssue(keys[1], kept, Len(issues) + 1)))

\* aggregate_issues(pages)
AggregateIssues(pages) ==
    LET items == AllItems(pages)
        keys == Dedup([i \in 1..Len(items) |-> GroupKey(items[i].fragment)])
    IN  BuildIssues(pages, items, keys, << >>)


(***************************************************************************)
(* Carry-forward of reviews and the scoring request                        *)
(***************************************************************************)
\* MergeTaReviews with the copy of the existing ta_review left out
MergeTaReviews_NoCarry(issues, existing_issues) == issues

\* the "Merge TA reviews from existing issues" loop: existing_issues_dict is
\* keyed by issue_id, a later duplicate id replacing an earlier one
MergeTaReviews(issues, existing_issues) ==
    [i \in 1..Len(issues) |->
        LET hits == {j \in 1..Len(existing_issues) :
                        existing_issues[j].issue_id = issues[i].issue_id}
        IN  IF hits # {} /\ HasReview(existing_issues[CHOOSE j \in hits : \A k \in hits : k <= j])
            THEN [issues[i] EXCEPT !.ta_review =
                     existing_issues[CHOOSE j \in hits : \A k \in hits : k <= j].ta_review]
            ELSE issues[i]]

\* ClearTaReviews with the deletion left out
ClearTaReviews_Keep(issues) == issues

\* the "for issue in issues_data: del issue['ta_review']" loop
ClearTaReviews(issues) ==
    [i \in 1..Len(issues) |-> [issues[i] EXCEPT !.ta_review = AbsentReview]]

\* the ta_review entry build_scoring_input writes for one reviewed Issue
ScoringTaReview(ta_review) ==
    [final_severity |-> ta_review.final_severity,
     final_issue_score_0_4 |-> ta_review.final_score_0_4]

\* scoring_input["issues"] as build_scoring_input lists it; an entry of an Issue
\* without a truthy ta_review has no ta_review key (has_ta_review is FALSE)
BuildScoringInput(issues) ==
    [i \in 1..Len(issues) |->
        [issue_id |-> issues[i].issue_id,
         heuristic_id |-> issues[i].heuristic_id,
         issue_title |-> issues[i].title,
         pages_involved |-> issues[i].pages_involved,
         ai_proposed_severity |-> issues[i].ai_proposed_severity,
         has_ta_review |-> HasReview(issues[i]),
         ta_review |-> IF HasReview(issues[i])
                       THEN ScoringTaReview(issues[i].ta_review)
                       ELSE ScoringTaReview(NoneReview)]]


(***************************************************************************)
(* The persisted documents of one job and the handlers that write them     *)
(***************************************************************************)
VARIABLES
    extraction,     \* the job's extraction file exists
    analysisFiles,  \* page_number -> the per-page analysis file
    pagesDoc,       \* pages.json
    issuesDoc,      \* issues.json
    scoringDoc,     \* scoring.json
    overridesDoc,   \* the job's overrides file: the list "overrides"
    correctionsDoc, \* corrections.json: the list "corrections"
    riskFlagsDoc,   \* the job's risk flags file: the list "riskPages"
    gradingScoresDoc, \* scores.json: the TA-modified grading scores, NoDocument when absent
    finalGradeDoc,  \* final_grade.json, NoDocument when absent
    issueScoresDoc, \* issue_scores.json, NoDocument when absent
    jobFiles,       \* the files of two jobs served side by side, by path
    calls,          \* per job, the handler call in progress and what it has loaded
    lastOp,         \* the last handler call that wrote a document: name, clear_reviews, outcome
    oracleRequest,  \* the "issues" list of the scoring request that handler built
    input,          \* argument of a direct call of a pure function
    output          \* result of that call

vars == <<extraction, analysisFiles, pagesDoc, issuesDoc, scoringDoc, overridesDoc,
          correctionsDoc, riskFlagsDoc, gradingScoresDoc, finalGradeDoc, issueScoresDoc,
          jobFiles, calls, lastOp, oracleRequest, input, output>>

\* the files of the grading handlers
gradeVars == <<gradingScoresDoc, finalGradeDoc, issueScoresDoc>>

\* the two-job store and its calls in progress
jobVars == <<jobFiles, calls>>

\* the files of the override and correction handlers, and those of the grading handlers
hitlVars == <<overridesDoc, correctionsDoc, riskFlagsDoc, gradeVars, jobVars>>

\* load_json_file(path) of a file that does not exist
NoDocument == << >>

\* Python's None as a request value
None == "None"

docVars == <<extraction, analysisFiles, pagesDoc, issuesDoc, scoringDoc, hitlVars>>

\* the pages of the submission
PageNumbers == {1, 2}

LastPage == CHOOSE n \in PageNumbers : \A m \in PageNumbers : m <= n

H1 == <<"H", "1">>

H2 == <<"H", "2">>

Frag(h, k, t, s) == [heuristic_id |-> h, issue_key |-> k, text_summary |-> t, severity_hint |-> s]

Page(id, n, role, frags) == [page_id |-> id, page_number |-> n, page_role |-> role, fragments |-> frags]

FragA == Frag(H1, <<"a">>, <<"x">>, "")

FragB == Frag(H2, <<"b">>, <<"y">>, "minor")

\* fragment lists the page classifier returns for a page
OracleFragments == {<<FragA>>, <<FragB>>}

\* page roles the page classifier returns
OracleRoles == {"violation_detail"}

\* roles an operator may force on a page
ForcedRoles == {"violation_detail", "heuristic_explainer"}

\* ta_review bodies a reviewer submits; None withdraws a review
ReviewInputs ==
    {[kind |-> "review", final_severity |-> "minor", final_score_0_4 |-> 4],
     [kind |-> "review", final_severity |-> "critical", final_score_0_4 |-> 3],
     NoneReview}

ScoringOutputs == {"s1"}

NoFile == [exists |-> FALSE, kind |-> "absent", page |-> Page(NoId, 0, "other", << >>)]

AnalysisFile(page) == [exists |-> TRUE, kind |-> "analysis", page |-> page]

ErrorFile(n) == [exists |-> TRUE, kind |-> "error", page |-> Page(NoId, n, "other", << >>)]

NoPages == [exists |-> FALSE, pages |-> << >>]

NoIssues == [exists |-> FALSE, issues |-> << >>]

NoScoring == [exists |-> FALSE, scoring |-> "none"]

Op(name, clear, status) == [name |-> name, clear |-> clear, status |-> status]

Init ==
    /\ extraction = TRUE
    /\ analysisFiles = [n \in PageNumbers |-> NoFile]
    /\ pagesDoc = NoPages
    /\ issuesDoc = NoIssues
    /\ scoringDoc = NoScoring
    /\ overridesDoc = << >>
    /\ correctionsDoc = << >>
    /\ riskFlagsDoc = << >>
    /\ gradingScoresDoc = NoDocument
    /\ finalGradeDoc = NoDocument
    /\ issueScoresDoc = NoDocument
    /\ jobFiles = << >>
    /\ calls = << >>
    /\ lastOp = Op("init", "n/a", "ok")
    /\ oracleRequest = << >>
    /\ input = << >>
    /\ output = << >>

RECURSIVE SortedResults(_, _)
\* the structured_analysis of every analysis file that has one, by page_number
SortedResults(files, n) ==
    IF n > LastPage THEN << >>
    ELSE (IF files[n].exists /\ files[n].kind = "analysis" THEN <<files[n].page>> ELSE << >>)
         \o SortedResults(files, n + 1)

\* issues.json after an aggregation pass over pages
RebuiltIssues(pages) ==
    [exists |-> TRUE, issues |-> MergeTaReviews(AggregateIssues(pages), issuesDoc.issues)]

\* what the page classifier does with a page: the call fails, or it answers with fragments
OracleResponses ==
    {[ok |-> TRUE, fragments |-> f] : f \in OracleFragments}
        \cup {[ok |-> FALSE, fragments |-> << >>]}

\* a handler call that writes no document leaves the whole state as it is
NothingWritten == UNCHANGED vars

\* analyze_single_page stores the classifier's record for page n, or an error record
\* without structured_analysis when the call raises
AnalyzeSinglePage(n, role, response) ==
    /\ IF response.ok
       THEN /\ analysisFiles' = [analysisFiles EXCEPT ![n] =
                    AnalysisFile(Page(DefaultPageId(n), n, role, response.fragments))]
            /\ lastOp' = Op("analyze_single_page", "n/a", "ok")
       ELSE /\ analysisFiles' = [analysisFiles EXCEPT ![n] = ErrorFile(n)]
            /\ lastOp' = Op("analyze_single_page", "n/a", "error")
    /\ oracleRequest' = << >>
    /\ UNCHANGED <<extraction, pagesDoc, issuesDoc, scoringDoc, input, output, hitlVars>>

\* get_analysis_results
GetAnalysisResults ==
    LET pages_data == SortedResults(analysisFiles, 1)
    IN  IF pages_data # << >>
        THEN /\ pagesDoc' = [exists |-> TRUE, pages |-> pages_data]
             /\ issuesDoc' = RebuiltIssues(pages_data)
             /\ lastOp' = Op("get_analysis_results", "n/a", "ok")
             /\ oracleRequest' = << >>
             /\ UNCHANGED <<extraction, analysisFiles, scoringDoc, input, output, hitlVars>>
        ELSE NothingWritten

\* get_pages: pages.json is returned when it exists, otherwise rebuilt from the analysis files
GetPages ==
    LET pages_data == SortedResults(analysisFiles, 1)
    IN  IF ~pagesDoc.exists /\ pages_data # << >>
        THEN /\ pagesDoc' = [exists |-> TRUE, pages |-> pages_data]
             /\ issuesDoc' = RebuiltIssues(pages_data)
             /\ lastOp' = Op("get_pages", "n/a", "ok")
             /\ oracleRequest' = << >>
             /\ UNCHANGED <<extraction, analysisFiles, scoringDoc, input, output, hitlVars>>
        ELSE NothingWritten

\* update_issue_review
UpdateIssueReview(issue_id, ta_review) ==
    LET found == \E i \in 1..Len(issuesDoc.issues) : issuesDoc.issues[i].issue_id = issue_id
        first == CHOOSE i \in 1..Len(issuesDoc.issues) :
                     /\ issuesDoc.issues[i].issue_id = issue_id
                     /\ \A j \in 1..(i - 1) : issuesDoc.issues[j].issue_id # issue_id
    IN  IF issuesDoc.exists /\ found
        THEN /\ issuesDoc' = [issuesDoc EXCEPT !.issues[first].ta_review = ta_review]
             /\ lastOp' = Op("update_issue_review", "n/a", "ok")
             /\ oracleRequest' = << >>
             /\ UNCHANGED <<extraction, analysisFiles, pagesDoc, scoringDoc, input, output, hitlVars>>
        ELSE NothingWritten

\* heuristic_id.lower(), over the letters a heuristic_id is spelled with
Lower(s) == [i \in 1..Len(s) |-> IF s[i] = "H" THEN "h" ELSE s[i]]

\* the request's heuristic_id passes the "Validate heuristic_id format" checks
RequestHeuristicValid(heuristic_id) ==
    /\ StartsWith(heuristic_id, <<"H">>)
    /\ Len(heuristic_id) >= 2
    /\ IntParses(SplitFirst(Drop(heuristic_id, 1), "_"))
    /\ IntValue(SplitFirst(Drop(heuristic_id, 1), "_")) >= MinHeuristic
    /\ IntValue(SplitFirst(Drop(heuristic_id, 1), "_")) <= MaxHeuristic

\* the single fragment given to a page forced to heuristic_explainer
ExplainerFragment(heuristic_id) ==
    Frag(heuristic_id,
         <<"h", "e", "u", "r", "i", "s", "t", "i", "c", "_">> \o Lower(heuristic_id)
             \o <<"_", "e", "x", "p", "l", "a", "n", "a", "t", "i", "o", "n">>,
         <<"T", "h", "i", "s", " ", "p", "a", "g", "e", " ",
           "e", "x", "p", "l", "a", "i", "n", "s", " ">> \o heuristic_id
             \o <<" ", "(", "N", "i", "e", "l", "s", "e", "n", "'", "s", " ",
                  "H", "e", "u", "r", "i", "s", "t", "i", "c", " ">>
             \o Drop(heuristic_id, 1) \o <<")", ".">>,
         "")

\* heuristic_id values of a reanalyze request; << >> is a request without one
ForcedHeuristics == {<< >>, H1}

\* position in pages of the first page whose page_id is page_id, 0 when there is none
PageIndex(pages, page_id) ==
    IF \E i \in 1..Len(pages) : pages[i].page_id = page_id
    THEN CHOOSE i \in 1..Len(pages) :
             pages[i].page_id = page_id /\ \A j \in 1..(i - 1) : pages[j].page_id # page_id
    ELSE 0

\* structured_analysis = json.loads(response_text): the classifier's record for the page
ResponseAnalysis(response, page_id, page_number) ==
    IF "analysis" \in DOMAIN response THEN response.analysis
    ELSE Page(page_id, page_number, "other", response.fragments)

\* the page record replaced by the new analysis, only its page_id kept
UpdatedPage_Replaced(page, structured_analysis, page_id) ==
    [page_id |-> page_id] @@ structured_analysis

\* page.update(structured_analysis); page["page_id"] = page_id
UpdatedPage(page, structured_analysis, page_id) ==
    [page_id |-> page_id] @@ structured_analysis @@ page

\* reanalyze_page_with_role
ReanalyzePageWithRole(page_id, new_page_role, heuristic_id, response) ==
    LET idx == PageIndex(pagesDoc.pages, page_id)
        old == pagesDoc.pages[idx]
        explainer == new_page_role = "heuristic_explainer" /\ heuristic_id # << >>
        structured_analysis ==
            (IF explainer
             THEN [page_role |-> new_page_role, fragments |-> <<ExplainerFragment(heuristic_id)>>]
             ELSE [page_role |-> new_page_role])
                @@ ResponseAnalysis(response, page_id, old.page_number)
        pages == [pagesDoc.pages EXCEPT ![idx] = UpdatedPage(old, structured_analysis, page_id)]
    IN  IF \/ (new_page_role = "heuristic_explainer" /\ heuristic_id = << >>)
           \/ (heuristic_id # << >> /\ ~RequestHeuristicValid(heuristic_id))
           \/ ~pagesDoc.exists \/ idx = 0 \/ ~extraction
           \/ old.page_number \notin PageNumbers
           \/ ~response.ok
        THEN NothingWritten
        ELSE /\ analysisFiles' = [analysisFiles EXCEPT
                                     ![old.page_number] = AnalysisFile(structured_analysis)]
             /\ pagesDoc' = [exists |-> TRUE, pages |-> pages]
             /\ issuesDoc' = RebuiltIssues(pages)
             /\ lastOp' = Op("reanalyze_page_with_role", "n/a", "ok")
             /\ oracleRequest' = << >>
             /\ UNCHANGED <<extraction, scoringDoc, input, output, hitlVars>>

\* what a recompute request body says about clear_reviews
ClearArgs == {"default", "true", "false"}

\* request.get("clear_reviews", True), the default of recompute_job_scores being the same
ClearReviews(clear) == clear # "false"

\* recompute_scores_endpoint -> recompute_job_scores; outcome is what the oracle call
\* and the parsing of its answer do
\* scoring.json when the scoring output is saved whatever the oracle call and the
\* parsing did
ScoringAfter_Always(scoring, outcome, scoring_output) ==
    [exists |-> TRUE, scoring |-> scoring_output]

\* scoring.json after steps 3, 4 and 7 of recompute_job_scores: save_job_scoring is
\* reached only when neither call_grading_llm nor parse_scoring_output raised
ScoringAfter(scoring, outcome, scoring_output) ==
    IF outcome = "ok" THEN [exists |-> TRUE, scoring |-> scoring_output] ELSE scoring

RecomputeScores(clear, outcome, scoring_output) ==
    LET issues == IF ClearReviews(clear) THEN ClearTaReviews(issuesDoc.issues)
                  ELSE issuesDoc.issues
    IN  IF pagesDoc.pages = << >> \/ issuesDoc.issues = << >>
        THEN /\ lastOp' = Op("recompute_scores", clear, "404")
             /\ oracleRequest' = << >>
             /\ UNCHANGED <<docVars, input, output>>
        ELSE /\ issuesDoc' = [exists |-> TRUE, issues |-> issues]
             /\ oracleRequest' = BuildScoringInput(issues)
             /\ scoringDoc' = ScoringAfter(scoringDoc, outcome, scoring_output)
             /\ lastOp' = Op("recompute_scores", clear, IF outcome = "ok" THEN "ok" ELSE "500")
             /\ UNCHANGED <<extraction, analysisFiles, pagesDoc, input, output, hitlVars>>

Next ==
    \/ \E n \in PageNumbers, role \in OracleRoles, response \in OracleResponses :
           AnalyzeSinglePage(n, role, response)
    \/ GetAnalysisResults
    \/ GetPages
    \/ \E issue_id \in 1..(LastPage + 1), ta_review \in ReviewInputs :
           UpdateIssueReview(issue_id, ta_review)
    \/ \E n \in PageNumbers, role \in ForcedRoles, h \in ForcedHeuristics,
          response \in OracleResponses :
           ReanalyzePageWithRole(DefaultPageId(n), role, h, response)
    \/ \E clear \in ClearArgs, outcome \in {"ok", "oracle_error", "parse_error"},
          s \in ScoringOutputs :
           RecomputeScores(clear, outcome, s)

Spec == Init /\ [][Next]_vars


(***************************************************************************)
(* Review carry-forward and clearing                                       *)
(***************************************************************************)
\* handlers that rebuild issues.json from the pages
AggregationPasses == {"get_analysis_results", "get_pages", "reanalyze_page_with_role"}

\* the ta_review values of the reviewed Issues of an Issue list
ReviewsIn(issues) == {issues[i].ta_review : i \in {j \in 1..Len(issues) : HasReview(issues[j])}}

\* C1: on every aggregation pass that rebuilds the Issue list (get_analysis_results,
\* the regeneration path of get_pages, reanalyze_page_with_role), every rebuilt Issue
\* whose issue_id is that of a previously persisted Issue with a non-empty ta_review
\* is persisted with exactly that ta_review.
C1_CarriedByIssueId ==
    [][lastOp'.name \in AggregationPasses =>
        \A i \in 1..Len(issuesDoc'.issues) : \A j \in 1..Len(issuesDoc.issues) :
            (issuesDoc.issues[j].issue_id = issuesDoc'.issues[i].issue_id
                /\ HasReview(issuesDoc.issues[j]))
            => issuesDoc'.issues[i].ta_review = issuesDoc.issues[j].ta_review]_vars

\* an aggregation pass has just rebuilt an Issue list that carries a review
C1_Witness ==
    /\ lastOp.name \in AggregationPasses
    /\ \E i \in 1..Len(issuesDoc.issues) : HasReview(issuesDoc.issues[i])

\* C2: a stored ta_review survives recomputation unless explicitly cleared: a page
\* analysis or an aggregation pass, none of which asks for clearing, leaves every
\* stored ta_review in the persisted Issue list, also when the rebuilt list has fewer
\* Issues or another discovery order.
C2_ReviewSurvivesRecomputation ==
    [][lastOp'.name \in AggregationPasses \cup {"analyze_single_page"} =>
        ReviewsIn(issuesDoc.issues) \subseteq ReviewsIn(issuesDoc'.issues)]_vars

\* C3: a recompute whose request has no clear_reviews field leaves the ta_review of
\* every persisted Issue unchanged.
C3_NoImplicitClear ==
    [][(lastOp'.name = "recompute_scores" /\ lastOp'.clear = "default") =>
        /\ Len(issuesDoc'.issues) = Len(issuesDoc.issues)
        /\ \A i \in 1..Len(issuesDoc.issues) :
               HasReview(issuesDoc.issues[i])
               => issuesDoc'.issues[i].ta_review = issuesDoc.issues[i].ta_review]_vars

\* some fragment of the Issue's group carries a severity hint
GroupHasHint(pages, issue) ==
    \E p \in 1..Len(pages) : \E f \in 1..Len(pages[p].fragments) :
        /\ pages[p].fragments[f].heuristic_id = issue.heuristic_id
        /\ pages[p].fragments[f].issue_key = issue.issue_key
        /\ pages[p].fragments[f].severity_hint # ""

\* C4: recompute with clear_reviews = false keeps every ta_review in the persisted
\* Issue list and passes it to the oracle request; with clear_reviews = true every
\* ta_review is removed before the request is built, so the request has no ta_review
\* and shows each Issue's fragment-derived severity, "major" when no fragment of its
\* group carried a hint.
C4_OverridePersistence ==
    [][lastOp'.name = "recompute_scores" =>
        /\ Len(oracleRequest') = Len(issuesDoc.issues)
        /\ lastOp'.clear = "false" =>
              /\ issuesDoc'.issues = issuesDoc.issues
              /\ \A i \in 1..Len(issuesDoc.issues) :
                     HasReview(issuesDoc.issues[i]) =>
                        /\ oracleRequest'[i].has_ta_review
                        /\ oracleRequest'[i].ta_review.final_severity
                               = issuesDoc.issues[i].ta_review.final_severity
                        /\ oracleRequest'[i].ta_review.final_issue_score_0_4
                               = issuesDoc.issues[i].ta_review.final_score_0_4
        /\ lastOp'.clear = "true" =>
              \A i \in 1..Len(issuesDoc.issues) :
                  /\ ~HasReview(issuesDoc'.issues[i])
                  /\ ~oracleRequest'[i].has_ta_review
                  /\ oracleRequest'[i].issue_id = issuesDoc.issues[i].issue_id
                  /\ oracleRequest'[i].ai_proposed_severity
                         = issuesDoc.issues[i].ai_proposed_severity
                  /\ ~GroupHasHint(pagesDoc.pages, issuesDoc.issues[i])
                         => oracleRequest'[i].ai_proposed_severity = "major"]_vars

\* a recompute with clear_reviews = false has sent a reviewed Issue to the oracle
C4_Witness ==
    /\ lastOp.name = "recompute_scores"
    /\ lastOp.clear = "false"
    /\ \E i \in 1..Len(oracleRequest) : oracleRequest[i].has_ta_review


(***************************************************************************)
(* Direct calls of aggregate_issues                                        *)
(***************************************************************************)
\* the job store of a run that only calls a function
IdleStore ==
    /\ extraction = FALSE
    /\ analysisFiles = [n \in PageNumbers |-> NoFile]
    /\ pagesDoc = NoPages
    /\ issuesDoc = NoIssues
    /\ scoringDoc = NoScoring
    /\ overridesDoc = << >>
    /\ correctionsDoc = << >>
    /\ riskFlagsDoc = << >>
    /\ gradingScoresDoc = NoDocument
    /\ finalGradeDoc = NoDocument
    /\ issueScoresDoc = NoDocument
    /\ jobFiles = << >>
    /\ calls = << >>
    /\ oracleRequest = << >>

\* spellings of a fragment's heuristic_id
Spellings ==
    {<<"H", "3">>, <<"h", "3">>, <<"H", "e", "u", "r", "i", "s", "t", "i", "c", " ", "3">>, <<"H", "e", "u", "r", "i", "s", "t", "i", "c", " ", "#", "3">>,
     <<"H", "1", "1">>, <<"H", "x">>, << >>,
     <<"H", "3", "_", "a">>, <<"H", "1", "0">>}

KeyK == <<"k">>

KeyM == <<"m">>

AggFragments ==
    {Frag(h, KeyK, <<"t">>, "") : h \in Spellings}
        \cup {Frag(<<"H", "3">>, KeyM, <<"t">>, ""), Frag(<<"H", "3">>, KeyK, <<"u">>, "critical")}

\* a page as the classifier may return it; a conclusion page comes without page_id
AggPage(n, role, frags) ==
    Page(IF role = "conclusion" THEN NoId ELSE DefaultPageId(n), n, role, frags)

\* a violation_detail page with any fragment or none, a conclusion page with a
\* fragment or none
AggPageBodies ==
    {[role |-> "violation_detail", fragments |-> f] :
        f \in {<< >>} \cup {<<g>> : g \in AggFragments}}
        \cup {[role |-> "conclusion", fragments |-> f] :
                 f \in {<< >>, <<Frag(<<"h", "3">>, KeyK, <<"t">>, "")>>}}

MaxAggPages == 2

\* every list of at most MaxAggPages pages, numbered from 1
AggInputs ==
    UNION {{[n \in 1..len |-> AggPage(n, b[n].role, b[n].fragments)] :
               b \in [1..len -> AggPageBodies]} : len \in 0..MaxAggPages}

InitAgg ==
    /\ IdleStore
    /\ lastOp = Op("init", "n/a", "ok")
    /\ input \in AggInputs
    /\ output = << >>

\* aggregate_issues(input)
CallAggregateIssues ==
    /\ lastOp.name = "init"
    /\ output' = AggregateIssues(input)
    /\ lastOp' = Op("aggregate_issues", "n/a", "ok")
    /\ UNCHANGED <<docVars, oracleRequest, input>>

NextAgg == CallAggregateIssues

SpecAgg == InitAgg /\ [][NextAgg]_vars

\* the decimal numeral of n
Numeral(n) == IF n < 10 THEN <<Digits[n + 1]>> ELSE <<Digits[(n \div 10) + 1], Digits[(n % 10) + 1]>>

\* the canonical heuristic ids "H1" .. "H10"
CanonicalNames == {<<"H">> \o Numeral(n) : n \in MinHeuristic..MaxHeuristic}

\* the documented spellings of heuristic n: "Hn", "hn", "Heuristic n", "Heuristic #n"
DocumentedSpellings(n) ==
    {pre \o Numeral(n) : pre \in {<<"H">>, <<"h">>, <<"H", "e", "u", "r", "i", "s", "t", "i", "c", " ">>, <<"H", "e", "u", "r", "i", "s", "t", "i", "c", " ", "#">>}}

Unknown == <<"U", "n", "k", "n", "o", "w", "n">>

\* the canonical form the specification gives a heuristic_id
Canonical(h) ==
    IF \E n \in MinHeuristic..MaxHeuristic : h \in DocumentedSpellings(n)
    THEN <<"H">> \o Numeral(CHOOSE n \in MinHeuristic..MaxHeuristic : h \in DocumentedSpellings(n))
    ELSE Unknown

\* the fragments handed to aggregate_issues, each with the id of its page
InputFragments ==
    UNION {{[fragment |-> input[p].fragments[f], page_id |-> PageIdOf(input[p])] :
               f \in 1..Len(input[p].fragments)} : p \in 1..Len(input)}

\* C6: every Issue returned by aggregate_issues has a heuristic_id that is one of the
\* canonical strings "H1".."H10", and a fragment whose heuristic_id canonicalizes to
\* Unknown contributes to no Issue.
C6_CanonicalHeuristicIds ==
    lastOp.name = "aggregate_issues" =>
        /\ \A i \in 1..Len(output) : output[i].heuristic_id \in CanonicalNames
        /\ \A it \in InputFragments :
               Canonical(it.fragment.heuristic_id) = Unknown =>
                   \A i \in 1..Len(output) :
                       ~(/\ output[i].heuristic_id = it.fragment.heuristic_id
                         /\ output[i].issue_key = it.fragment.issue_key)

\* C7: a fragment whose heuristic_id is a documented spelling of heuristic n ("Hn",
\* "hn", "Heuristic n", "Heuristic #n") forms an Issue whose heuristic_id is "Hn".
C7_SpellingsAccepted ==
    lastOp.name = "aggregate_issues" =>
        \A it \in InputFragments :
            Canonical(it.fragment.heuristic_id) # Unknown =>
                \E i \in 1..Len(output) :
                    /\ output[i].heuristic_id = Canonical(it.fragment.heuristic_id)
                    /\ output[i].issue_key = it.fragment.issue_key
                    /\ it.page_id \in output[i].pages_involved

\* C8: all fragments sharing a group key (canonical heuristic_id, issue_key) merge
\* into one Issue: no two Issues have the same (heuristic_id, issue_key), and each
\* Issue's pages_involved is non-empty and is the set of page_ids of the pages that
\* contributed a fragment to its group.
C8_OneIssuePerGroup ==
    lastOp.name = "aggregate_issues" =>
        /\ \A i, j \in 1..Len(output) :
               (/\ output[i].heuristic_id = output[j].heuristic_id
                /\ output[i].issue_key = output[j].issue_key) => i = j
        /\ \A it \in InputFragments :
               Canonical(it.fragment.heuristic_id) # Unknown =>
                   Cardinality({i \in 1..Len(output) :
                       /\ Canonical(output[i].heuristic_id) = Canonical(it.fragment.heuristic_id)
                       /\ output[i].issue_key = it.fragment.issue_key}) = 1
        /\ \A i \in 1..Len(output) :
               /\ output[i].pages_involved # {}
               /\ output[i].pages_involved =
                      {it.page_id : it \in {g \in InputFragments :
                          /\ Canonical(g.fragment.heuristic_id) = Canonical(output[i].heuristic_id)
                          /\ g.fragment.issue_key = output[i].issue_key}}

(***************************************************************************)
(* Titles of Issues built from long summaries                              *)
(***************************************************************************)
MaxTextLen == 70

\* a text of len letters with a full stop at position dot and a blank at position blank
TextOf(len, dot, blank) ==
    [i \in 1..len |-> IF i = dot THEN "." ELSE IF i = blank THEN " " ELSE "a"]

TextLengths == {0, 1, WordBreakMin + 5, TitleLimit - 1, TitleLimit, TitleLimit + 1, MaxTextLen}

DotPositions == {0, 1, WordBreakMin - 10, TitleLimit + 1, TitleLimit + 2}

BlankPositions == {0, 1, WordBreakMin + 1, WordBreakMin + 2, TitleLimit - 10, TitleLimit}

TitleInputs ==
    {<<Page("p01", 1, "violation_detail", <<Frag(<<"H", "3">>, KeyK, TextOf(len, dot, blank), "")>>)>> :
        len \in TextLengths, dot \in DotPositions, blank \in BlankPositions}

InitTitle ==
    /\ IdleStore
    /\ lastOp = Op("init", "n/a", "ok")
    /\ input \in TitleInputs
    /\ output = << >>

SpecTitle == InitTitle /\ [][NextAgg]_vars

UniqueHeuristics(issues) ==
    {issues[i].heuristic_id : i \in {j \in 1..Len(issues) :
        /\ issues[j].heuristic_id # << >>
        /\ ~StartsWith(issues[j].heuristic_id, <<"H", "x">>)}}

\* CoverageScore with the thresholds taken inclusively
CoverageScore_Inclusive(unique_heuristics, issues) ==
    LET s0 == 15
        s1 == IF Cardinality(unique_heuristics) <= 10 THEN s0 - 5 ELSE s0
        s2 == IF Len(issues) <= 12 THEN s1 - 5 ELSE s1
        s3 == IF Cardinality(unique_heuristics) <= 8 THEN s2 - 2 ELSE s2
        s4 == IF Len(issues) <= 10 THEN s3 - 2 ELSE s3
    IN  Max(0, s4)

\* coverage_score: 15 less the four deductions, not below 0
CoverageScore(unique_heuristics, issues) ==
    LET s0 == 15
        s1 == IF Cardinality(unique_heuristics) < 10 THEN s0 - 5 ELSE s0
        s2 == IF Len(issues) < 12 THEN s1 - 5 ELSE s1
        s3 == IF Cardinality(unique_heuristics) < 8 THEN s2 - 2 ELSE s2
        s4 == IF Len(issues) < 10 THEN s3 - 2 ELSE s3
    IN  Max(0, s4)

\* record.get(field, default)
FieldOr(record, field, default) == IF field \in DOMAIN record THEN record[field] ELSE default

\* p.get("rubric_relevance", {}).get(criterion, "none")
RubricRelevance(p, criterion) == FieldOr(FieldOr(p, "rubric_relevance", << >>), criterion, "none")

\* the pages with one of the given roles, in order
PagesWithRole(pages, roles) == SelectSeq(pages, LAMBDA p : FieldOr(p, "page_role", "") \in roles)

RECURSIVE SumScores(_, _)
\* sum(level_scores.get(level, 0) for level in levels)
SumScores(level_scores, levels) ==
    IF levels = << >> THEN 0
    ELSE FieldOr(level_scores, Head(levels), 0) + SumScores(level_scores, Tail(levels))

\* round(total / count): Python rounds a half to the even neighbour
RoundHalfEven(total, count) ==
    LET q == total \div count
        r == total % count
    IN  IF 2 * r < count THEN q
        ELSE IF 2 * r > count THEN q + 1
        ELSE IF q % 2 = 0 THEN q ELSE q + 1

\* round(avg_score) over the levels of the chosen pages
AveragePoints(level_scores, levels) == RoundHalfEven(SumScores(level_scores, levels), Len(levels))

\* the severity_summary pages, and AverageSeverity read over the violation_detail pages too
SeverityPages_WithDetail(pages) == PagesWithRole(pages, {"violation_detail", "severity_summary"})

\* severity_pages: the pages whose page_role is severity_summary
SeverityPages(pages) == PagesWithRole(pages, {"severity_summary"})

\* the severity_analysis points: the average over the severity_summary pages, 5 without one
SeverityAnalysisPoints(pages) ==
    IF SeverityPages(pages) # << >>
    THEN AveragePoints([high |-> 10, med |-> 7, low |-> 4, none |-> 0],
                       [i \in 1..Len(SeverityPages(pages)) |->
                           RubricRelevance(SeverityPages(pages)[i], "severity_analysis")])
    ELSE 5

\* the points of a criterion averaged over every page
WholeReportPoints(pages, criterion) ==
    AveragePoints([high |-> 10, med |-> 7, low |-> 4, none |-> 2],
                  [i \in 1..Len(pages) |-> RubricRelevance(pages[i], criterion)])

\* the scores dict before any criterion is computed
InitialScores ==
    [coverage |-> [points |-> 0, max |-> 15],
     violation_quality |-> [points |-> 0, max |-> 20],
     screenshots |-> [points |-> 0, max |-> 10],
     severity_analysis |-> [points |-> 0, max |-> 10],
     structure_navigation |-> [points |-> 0, max |-> 10],
     professional_quality |-> [points |-> 0, max |-> 10],
     writing_quality |-> [points |-> 0, max |-> 10],
     group_integration |-> [points |-> 0, max |-> 15],
     bonus_ai_opportunities |-> [points |-> 0, max |-> 3],
     bonus_exceptional_quality |-> [points |-> 0, max |-> 1]]

\* calculate_grading_scores(pages, issues): points and max of every criterion
CalculateGradingScores(pages, issues) ==
    IF pages = << >> \/ issues = << >>
    THEN InitialScores
    ELSE LET violation_pages == PagesWithRole(pages, {"violation_detail"})
             group_pages == PagesWithRole(pages, {"intro", "group_collab"})
         IN  [InitialScores EXCEPT
                 !.coverage.points = CoverageScore(UniqueHeuristics(issues), issues),
                 !.violation_quality.points =
                     IF violation_pages = << >> THEN 0
                     ELSE AveragePoints([high |-> 20, med |-> 15, low |-> 10, none |-> 0],
                              [i \in 1..Len(violation_pages) |->
                                  RubricRelevance(violation_pages[i], "violation_quality")]),
                 !.screenshots.points =
                     IF violation_pages = << >> THEN 0
                     ELSE AveragePoints([high |-> 10, medium |-> 8, low |-> 5, none |-> 2],
                              [i \in 1..Len(violation_pages) |->
                                  FieldOr(violation_pages[i], "has_annotations", "none")]),
                 !.severity_analysis.points = SeverityAnalysisPoints(pages),
                 !.structure_navigation.points = WholeReportPoints(pages, "structure_navigation"),
                 !.professional_quality.points = WholeReportPoints(pages, "professional_quality"),
                 !.writing_quality.points = WholeReportPoints(pages, "writing_quality"),
                 !.group_integration.points =
                     IF group_pages = << >> THEN 5
                     ELSE AveragePoints([high |-> 15, med |-> 10, low |-> 5, none |-> 0],
                              [i \in 1..Len(group_pages) |->
                                  RubricRelevance(group_pages[i], "group_integration")])]

MaxIssues == 13

HeuristicCounts == MinHeuristic..MaxHeuristic

\* n Issues: the first x carry an "Hx" heuristic_id, the others go round h heuristics
CovIssues(h, n, x) ==
    [i \in 1..n |->
        [issue_id |-> i,
         heuristic_id |-> IF i <= x THEN <<"H", "x">>
                          ELSE <<"H">> \o Numeral(((i - x - 1) % h) + 1)]]

CovPages == {<< >>, <<Page("p01", 1, "violation_detail", <<FragA>>)>>}

CovInputs ==
    {[pages |-> p, issues |-> CovIssues(h, n, x)] :
        p \in CovPages, h \in HeuristicCounts, n \in 0..MaxIssues, x \in {0, 1}}

InitCov ==
    /\ IdleStore
    /\ lastOp = Op("init", "n/a", "ok")
    /\ input \in CovInputs
    /\ output = << >>

\* calculate_grading_scores(input.pages, input.issues)
CallCalculateGradingScores ==
    /\ lastOp.name = "init"
    /\ output' = CalculateGradingScores(input.pages, input.issues)
    /\ lastOp' = Op("calculate_grading_scores", "n/a", "ok")
    /\ UNCHANGED <<docVars, oracleRequest, input>>

NextCov == CallCalculateGradingScores

SpecCov == InitCov /\ [][NextCov]_vars

\* 1 when the condition holds, 0 otherwise
Bracket(condition) == IF condition THEN 1 ELSE 0

\* the documented coverage points for h distinct heuristics and n Issues
DocumentedCoverage(h, n) ==
    Max(0, 15 - 5 * Bracket(h < 10) - 5 * Bracket(n < 12)
              - 2 * Bracket(h < 8) - 2 * Bracket(n < 10))

\* the distinct heuristics an Issue list covers
HeuristicsCovered(issues) ==
    Cardinality({issues[i].heuristic_id : i \in 1..Len(issues)}
                    \ {h \in {issues[i].heuristic_id : i \in 1..Len(issues)} :
                          h = << >> \/ Take(h, 2) = <<"H", "x">>})

\* C10 as claimed: for every Pages list and Issues list, with h distinct heuristics
\* covered and n Issues, coverage points = max(0, 15 - 5[h<10] - 5[n<12] - 2[h<8]
\* - 2[n<10]), also when n = 0 or the Pages list is empty.
C10_CoverageFormulaEverywhere ==
    lastOp.name = "calculate_grading_scores" =>
        output.coverage.points
            = DocumentedCoverage(HeuristicsCovered(input.issues), Len(input.issues))

\* C10 as amended: when the Pages list and the Issues list are both non-empty, coverage
\* points = max(0, 15 - 5[h<10] - 5[n<12] - 2[h<8] - 2[n<10]) with h the number of
\* distinct heuristic ids of the Issues (ids starting with "Hx" not counted) and n the
\* number of Issues; when the Pages list or the Issues list is empty, coverage points
\* are 0.
C10_CoverageFormulaNonEmpty ==
    lastOp.name = "calculate_grading_scores" =>
        output.coverage.points
            = IF input.pages = << >> \/ input.issues = << >>
              THEN 0
              ELSE DocumentedCoverage(HeuristicsCovered(input.issues), Len(input.issues))

\* 7 distinct heuristics and 9 Issues on a non-empty Pages list scored 1
C10_Witness ==
    /\ lastOp.name = "calculate_grading_scores"
    /\ input.pages # << >>
    /\ Len(input.issues) = 9
    /\ HeuristicsCovered(input.issues) = 7
    /\ output.coverage.points = 1

(***************************************************************************)
(* Oracle texts and json.loads                                             *)
(*                                                                         *)
(* The text an oracle returns is a sequence of symbols.  Every structural  *)
(* character ({ } [ ] : , . -), the blank, the quote, the backslash and    *)
(* every digit of a number literal is a symbol of its own; a word (a run   *)
(* of letters, digits and "_" inside a string, or true, false, null) and   *)
(* the code fence (three backticks) are one symbol each.                   *)
(*                                                                         *)
(* A JSON value is a record [t, s, n, m]: t its type, s the symbols of a   *)
(* string, n a number in tenths (7.5 is 75) or the truth value 0/1, m the  *)
(* members [k, v] of an object in dict order or of an array (k empty).     *)
(***************************************************************************)
Quote == "\""

Backslash == "\\"

\* the code fence, three backticks
Fence == "fence"

JNull == [t |-> "null", s |-> << >>, n |-> 0, m |-> << >>]

JBool(b) == [t |-> "bool", s |-> << >>, n |-> IF b THEN 1 ELSE 0, m |-> << >>]

JStr(str) == [t |-> "str", s |-> str, n |-> 0, m |-> << >>]

\* the number tenths / 10
JNum(tenths) == [t |-> "num", s |-> << >>, n |-> tenths, m |-> << >>]

\* the integer k
JInt(k) == JNum(10 * k)

JArr(members) == [t |-> "arr", s |-> << >>, n |-> 0, m |-> members]

JObj(members) == [t |-> "obj", s |-> << >>, n |-> 0, m |-> members]

Member(k, v) == [k |-> k, v |-> v]

\* F(value) with value computed once, as a local variable of the code holds it
Once(F(_), value) == CHOOSE result \in {F(x) : x \in {value}} : TRUE

\* key in d, for a dict d
Has(d, key) == d.t = "obj" /\ \E i \in 1..Len(d.m) : d.m[i].k = key

\* d[key]
Get(d, key) == d.m[CHOOSE i \in 1..Len(d.m) : d.m[i].k = key].v

\* d[key] = v: an existing key keeps its place
DictSet(d, key, v) ==
    IF Has(d, key)
    THEN JObj([i \in 1..Len(d.m) |-> IF d.m[i].k = key THEN Member(key, v) ELSE d.m[i]])
    ELSE JObj(Append(d.m, Member(key, v)))

\* first position from i on that holds no blank
SkipWs(s, i) ==
    IF \E j \in i..Len(s) : s[j] # " "
    THEN CHOOSE j \in i..Len(s) : s[j] # " " /\ \A k \in i..(j - 1) : s[k] = " "
    ELSE Len(s) + 1

ParseFail == [ok |-> FALSE, v |-> JNull, next |-> 0]

Parsed(v, next) == [ok |-> TRUE, v |-> v, next |-> next]

RECURSIVE StringEnd(_, _)
\* position of the quote that closes a string whose content starts at j, 0 if none
StringEnd(s, j) ==
    IF j > Len(s) THEN 0
    ELSE IF s[j] = Backslash THEN StringEnd(s, j + 2)
    ELSE IF s[j] = Quote THEN j
    ELSE StringEnd(s, j + 1)

ParseString(s, i) ==
    IF i <= Len(s) /\ s[i] = Quote /\ StringEnd(s, i + 1) # 0
    THEN Parsed(JStr(SubSeq(s, i + 1, StringEnd(s, i + 1) - 1)), StringEnd(s, i + 1) + 1)
    ELSE ParseFail

\* first position from i on that holds no digit
DigitsEnd(s, i) ==
    IF \E j \in i..Len(s) : ~IsDigit(s[j])
    THEN CHOOSE j \in i..Len(s) : ~IsDigit(s[j]) /\ \A k \in i..(j - 1) : IsDigit(s[k])
    ELSE Len(s) + 1

\* a number literal: -? int (. digits)?; the value keeps the first fractional digit
ParseNumber(s, i) ==
    LET neg == i <= Len(s) /\ s[i] = "-"
        a == IF neg THEN i + 1 ELSE i
        b == DigitsEnd(s, a)
        frac == b < Len(s) /\ s[b] = "." /\ IsDigit(s[b + 1])
        c == IF frac THEN DigitsEnd(s, b + 1) ELSE b
        whole == DecimalVal(SubSeq(s, a, b - 1))
        tenths == 10 * whole + (IF frac THEN DigitVal(s[b + 1]) ELSE 0)
    IN  IF b = a \/ (b - a > 1 /\ s[a] = "0") \/ (b <= Len(s) /\ s[b] = "." /\ ~frac)
        THEN ParseFail
        ELSE Parsed(JNum(IF neg THEN 0 - tenths ELSE tenths), c)

RECURSIVE ParseValue(_, _)
RECURSIVE ParseMembers(_, _, _)
RECURSIVE ParseElements(_, _, _)
\* the members of an object from the key at i on, added to the dict d
ParseMembers(s, i, d) ==
    LET key == ParseString(s, i)
        colon == SkipWs(s, key.next)
        val == ParseValue(s, SkipWs(s, colon + 1))
        after == SkipWs(s, val.next)
    IN  IF ~key.ok \/ colon > Len(s) \/ s[colon] # ":" THEN ParseFail
        ELSE IF ~val.ok \/ after > Len(s) THEN ParseFail
        ELSE IF s[after] = "}" THEN Parsed(DictSet(d, key.v.s, val.v), after + 1)
        ELSE IF s[after] = "," THEN ParseMembers(s, SkipWs(s, after + 1), DictSet(d, key.v.s, val.v))
        ELSE ParseFail

\* the elements of an array from the value at i on, appended to acc
ParseElements(s, i, acc) ==
    LET val == ParseValue(s, i)
        after == SkipWs(s, val.next)
    IN  IF ~val.ok \/ after > Len(s) THEN ParseFail
        ELSE IF s[after] = "]" THEN Parsed(JArr(Append(acc, Member(<< >>, val.v))), after + 1)
        ELSE IF s[after] = "," THEN ParseElements(s, SkipWs(s, after + 1), Append(acc, Member(<< >>, val.v)))
        ELSE ParseFail

\* the JSON value that starts at position i
ParseValue(s, i) ==
    IF i > Len(s) THEN ParseFail
    ELSE IF s[i] = Quote THEN ParseString(s, i)
    ELSE IF s[i] = "{"
         THEN IF SkipWs(s, i + 1) <= Len(s) /\ s[SkipWs(s, i + 1)] = "}"
              THEN Parsed(JObj(<< >>), SkipWs(s, i + 1) + 1)
              ELSE ParseMembers(s, SkipWs(s, i + 1), JObj(<< >>))
    ELSE IF s[i] = "["
         THEN IF SkipWs(s, i + 1) <= Len(s) /\ s[SkipWs(s, i + 1)] = "]"
              THEN Parsed(JArr(<< >>), SkipWs(s, i + 1) + 1)
              ELSE ParseElements(s, SkipWs(s, i + 1), << >>)
    ELSE IF s[i] = "true" THEN Parsed(JBool(TRUE), i + 1)
    ELSE IF s[i] = "false" THEN Parsed(JBool(FALSE), i + 1)
    ELSE IF s[i] = "null" THEN Parsed(JNull, i + 1)
    ELSE IF s[i] = "-" \/ IsDigit(s[i]) THEN ParseNumber(s, i)
    ELSE ParseFail

\* json.loads(s): ok is FALSE when it raises JSONDecodeError
JsonLoads(s) ==
    Once(LAMBDA text :
             Once(LAMBDA r : IF r.ok /\ SkipWs(text, r.next) > Len(text)
                             THEN [ok |-> TRUE, v |-> r.v]
                             ELSE [ok |-> FALSE, v |-> JNull],
                  ParseValue(text, SkipWs(text, 1))),
         s)

RECURSIVE Decimal(_)
\* the digits of the natural number n
Decimal(n) == IF n < 10 THEN <<Digits[n + 1]>> ELSE Decimal(n \div 10) \o <<Digits[(n % 10) + 1]>>

\* the symbols of a number given in tenths
NumberText(tenths) ==
    (IF tenths < 0 THEN <<"-">> ELSE << >>)
        \o Decimal((IF tenths < 0 THEN 0 - tenths ELSE tenths) \div 10)
        \o (IF tenths % 10 = 0 THEN << >>
            ELSE <<".", Digits[((IF tenths < 0 THEN 0 - tenths ELSE tenths) % 10) + 1]>>)

RECURSIVE JsonDumps(_)
RECURSIVE DumpMembers(_, _)
\* the members of an object or array, separated by commas
DumpMembers(members, isObj) ==
    IF members = << >> THEN << >>
    ELSE (IF isObj THEN <<Quote>> \o members[1].k \o <<Quote, ":">> ELSE << >>)
             \o JsonDumps(members[1].v)
             \o (IF Len(members) > 1 THEN <<",">> \o DumpMembers(Tail(members), isObj) ELSE << >>)

\* a text of the value v
JsonDumps(v) ==
    IF v.t = "str" THEN <<Quote>> \o v.s \o <<Quote>>
    ELSE IF v.t = "num" THEN NumberText(v.n)
    ELSE IF v.t = "bool" THEN (IF v.n = 1 THEN <<"true">> ELSE <<"false">>)
    ELSE IF v.t = "null" THEN <<"null">>
    ELSE IF v.t = "arr" THEN <<"[">> \o DumpMembers(v.m, FALSE) \o <<"]">>
    ELSE <<"{">> \o DumpMembers(v.m, TRUE) \o <<"}">>

(***************************************************************************)
(* parse_scoring_output                                                    *)
(***************************************************************************)
\* max_points of parse_scoring_output, in dict order
RubricKeys ==
    <<"coverage", "violation_quality", "severity_analysis", "screenshots_evidence",
      "structure_navigation", "professional_quality", "writing_quality", "group_integration">>

MaxPoints ==
    [coverage |-> 15, violation_quality |-> 20, severity_analysis |-> 10,
     screenshots_evidence |-> 10, structure_navigation |-> 10,
     professional_quality |-> 10, writing_quality |-> 10, group_integration |-> 15]

\* bonus_max of parse_scoring_output, in dict order
BonusKeys == <<"bonus_ai_opportunities", "bonus_exceptional_quality">>

BonusMax == [bonus_ai_opportunities |-> 3, bonus_exceptional_quality |-> 2]

NoExplanation == <<"No", " ", "explanation", " ", "provided", ".">>

\* s.endswith(p)
EndsWith(s, p) == Len(s) >= Len(p) /\ SubSeq(s, Len(s) - Len(p) + 1, Len(s)) = p

\* raw without a leading and a trailing code fence
CleanedRaw(raw) ==
    LET a == Strip(raw)
        b == IF StartsWith(a, <<Fence, "json">>) THEN Strip(Drop(a, 2)) ELSE a
        c == IF StartsWith(b, <<Fence>>) THEN Strip(Drop(b, 1)) ELSE b
    IN  IF EndsWith(c, <<Fence>>) THEN Strip(Take(c, Len(c) - 1)) ELSE c

\* position of the "{" that the pattern fence (json)? blanks "{" reaches from the fence at i, 0 if none
FenceOpens(raw, i) ==
    LET j == IF i < Len(raw) /\ raw[i + 1] = "json" THEN i + 2 ELSE i + 1
        k == SkipWs(raw, j)
    IN  IF raw[i] = Fence /\ k <= Len(raw) /\ raw[k] = "{" THEN k ELSE 0

\* positions e of a "}" after k that blanks and a fence follow
ClosedEnds(raw, k) ==
    {e \in (k + 1)..Len(raw) :
        raw[e] = "}" /\ SkipWs(raw, e + 1) <= Len(raw) /\ raw[SkipWs(raw, e + 1)] = Fence}

\* positions p after k from which only blanks and then a fence follow
OpenEnds(raw, k) ==
    {p \in (k + 1)..Len(raw) : SkipWs(raw, p) <= Len(raw) /\ raw[SkipWs(raw, p)] = Fence}

NoMatch == [found |-> FALSE, group |-> << >>]

\* re.search(fence (?:json)? \s* (\{.*?\}) \s* fence, raw, DOTALL)
SearchClosedBlock(raw) ==
    LET starts == {i \in 1..Len(raw) : FenceOpens(raw, i) # 0 /\ ClosedEnds(raw, FenceOpens(raw, i)) # {}}
    IN  IF starts = {} THEN NoMatch
        ELSE LET i == CHOOSE a \in starts : \A b \in starts : a <= b
                 k == FenceOpens(raw, i)
                 e == CHOOSE a \in ClosedEnds(raw, k) : \A b \in ClosedEnds(raw, k) : a <= b
             IN  [found |-> TRUE, group |-> SubSeq(raw, k, e)]

\* re.search(fence (?:json)? \s* (\{.*?) \s* fence, raw, DOTALL)
SearchOpenBlock(raw) ==
    LET starts == {i \in 1..Len(raw) : FenceOpens(raw, i) # 0 /\ OpenEnds(raw, FenceOpens(raw, i)) # {}}
    IN  IF starts = {} THEN NoMatch
        ELSE LET i == CHOOSE a \in starts : \A b \in starts : a <= b
                 k == FenceOpens(raw, i)
                 p == CHOOSE a \in OpenEnds(raw, k) : \A b \in OpenEnds(raw, k) : a <= b
             IN  [found |-> TRUE, group |-> SubSeq(raw, k, p - 1)]

\* int(x) of a number in tenths: the integer towards zero
IntOf(tenths) == IF tenths >= 0 THEN tenths \div 10 ELSE 0 - ((0 - tenths) \div 10)

\* round(x) of a number in tenths: the nearest integer, a tie goes to the even one
RoundOf(tenths) ==
    LET q == tenths \div 10
        r == tenths % 10
    IN  IF r < 5 THEN q
        ELSE IF r > 5 THEN q + 1
        ELSE IF q % 2 = 0 THEN q ELSE q + 1

\* float(str) does not raise: an optional sign, then digits with an optional fraction
FloatParses(str) ==
    LET t == Strip(str)
        u == IF t # << >> /\ t[1] \in {"+", "-"} THEN Drop(t, 1) ELSE t
        b == DigitsEnd(u, 1)
        c == IF b <= Len(u) /\ u[b] = "." THEN DigitsEnd(u, b + 1) ELSE b
    IN  u # << >> /\ c = Len(u) + 1 /\ (b > 1 \/ c > b + 1)

\* float(str) in tenths, defined when FloatParses(str)
FloatValue(str) ==
    LET t == Strip(str)
        u == IF t[1] \in {"+", "-"} THEN Drop(t, 1) ELSE t
        b == DigitsEnd(u, 1)
        tenths == 10 * DecimalVal(SubSeq(u, 1, b - 1))
                      + (IF b < Len(u) THEN DigitVal(u[b + 1]) ELSE 0)
    IN  IF t[1] = "-" THEN 0 - tenths ELSE tenths

Normal(v) == [err |-> "", v |-> v]

Raised(err) == [err |-> err, v |-> JNull]

\* the "Enforce integer scores" step on the points of one rubric component
IntegerPoints(points) ==
    IF points.t = "num" THEN Normal(JInt(RoundOf(points.n)))
    ELSE IF points.t = "bool" THEN Normal(JInt(points.n))
    ELSE IF points.t = "str"
         THEN IF FloatParses(points.s) THEN Normal(JInt(RoundOf(FloatValue(points.s))))
              ELSE IF points.s = << >> THEN Normal(JInt(0))
              ELSE Raised("ValueError")
    ELSE IF points.t = "null" THEN Normal(JInt(0))
    ELSE IF points.m = << >> THEN Normal(JInt(0))
    ELSE Raised("TypeError")

Component(points, max, explanation) ==
    JObj(<<Member(<<"points">>, points), Member(<<"max">>, max),
           Member(<<"explanation">>, explanation)>>)

\* key in container, for the value the oracle gave as rubric_scores or bonus_scores
Contains(container, key) ==
    IF container.t = "obj" THEN Has(container, <<key>>)
    ELSE IF container.t = "arr" THEN \E i \in 1..Len(container.m) : container.m[i].v = JStr(<<key>>)
    ELSE container.t = "str" /\ \E i \in 1..Len(container.s) : container.s[i] = key

\* one entry of normalized_rubric or normalized_bonus, before the integer step
NormalizedEntry(container, key, max_val, no_explanation) ==
    IF container.t \in {"num", "bool", "null"} THEN Raised("TypeError")
    ELSE IF ~Contains(container, key)
         THEN Normal(Component(JInt(0), JInt(max_val), JStr(no_explanation)))
    ELSE IF container.t # "obj" THEN Raised("TypeError")
    ELSE LET value == Get(container, <<key>>)
         IN  IF value.t = "obj" /\ Has(value, <<"points">>)
             THEN Normal(Component(Get(value, <<"points">>),
                                   IF Has(value, <<"max">>) THEN Get(value, <<"max">>) ELSE JInt(max_val),
                                   IF Has(value, <<"explanation">>) THEN Get(value, <<"explanation">>)
                                   ELSE JStr(no_explanation)))
             ELSE IF value.t \in {"num", "bool"}
             THEN Normal(Component(JInt(IF value.t = "bool" THEN value.n ELSE IntOf(value.n)),
                                   JInt(max_val), JStr(no_explanation)))
             ELSE Normal(Component(JInt(0), JInt(max_val), JStr(no_explanation)))

\* one entry of normalized_rubric after the integer step
RubricEntry(rubric_scores, key) ==
    LET e == NormalizedEntry(rubric_scores, key, MaxPoints[key], NoExplanation)
        p == IntegerPoints(Get(e.v, <<"points">>))
    IN  IF e.err # "" THEN e
        ELSE IF key = "screenshots_evidence" THEN e
        ELSE IF p.err # "" THEN Raised(p.err)
        ELSE Normal(DictSet(e.v, <<"points">>, p.v))

\* the first exception among entries, "" when none is raised
FirstError(entries) ==
    IF \E i \in 1..Len(entries) : entries[i].err # ""
    THEN entries[CHOOSE i \in 1..Len(entries) :
                     entries[i].err # "" /\ \A j \in 1..(i - 1) : entries[j].err = ""].err
    ELSE ""

Returned(out) == [status |-> "ok", missing |-> {}, out |-> out]

\* an exception; missing holds the top-level keys its message reports as missing
Raises(status, missing) == [status |-> status, missing |-> missing, out |-> JNull]

OverallKey == <<"overall_score_0_100">>

\* "key" not in output raises TypeError for a number, a truth value and None
TopLevelHas(parsed, key) ==
    IF parsed.t = "obj" THEN Has(parsed, key) ELSE Contains(parsed, key[1])

\* the try block of parse_scoring_output once json.loads has returned output
NormalizeScoring(parsed) ==
    IF parsed.t \in {"num", "bool", "null"} THEN Raises("TypeError", {})
    ELSE IF ~TopLevelHas(parsed, OverallKey) /\ ~TopLevelHas(parsed, <<"total_score">>)
         THEN Raises("ValueError", {"overall_score_0_100", "total_score"})
    ELSE IF parsed.t # "obj"
         THEN IF ~TopLevelHas(parsed, OverallKey) THEN Raises("TypeError", {})
              ELSE IF ~TopLevelHas(parsed, <<"rubric_scores">>) THEN Raises("ValueError", {"rubric_scores"})
              ELSE Raises("AttributeError", {})
    ELSE LET o1 == IF ~Has(parsed, OverallKey)
                   THEN DictSet(parsed, OverallKey, Get(parsed, <<"total_score">>))
                   ELSE parsed
         IN  IF ~Has(o1, <<"rubric_scores">>) THEN Raises("ValueError", {"rubric_scores"})
             ELSE LET rubric == [i \in 1..Len(RubricKeys) |->
                                    RubricEntry(Get(o1, <<"rubric_scores">>), RubricKeys[i])]
                      o2 == DictSet(o1, <<"rubric_scores">>,
                                JObj([i \in 1..Len(RubricKeys) |->
                                         Member(<<RubricKeys[i]>>, rubric[i].v)]))
                      bonus == [i \in 1..Len(BonusKeys) |->
                                   NormalizedEntry(Get(o2, <<"bonus_scores">>), BonusKeys[i],
                                                   BonusMax[BonusKeys[i]], << >>)]
                  IN  IF FirstError(rubric) # "" THEN Raises(FirstError(rubric), {})
                      ELSE IF ~Has(o2, <<"bonus_scores">>) THEN Returned(o2)
                      ELSE IF FirstError(bonus) # "" THEN Raises(FirstError(bonus), {})
                      ELSE Returned(DictSet(o2, <<"bonus_scores">>,
                                        JObj([i \in 1..Len(BonusKeys) |->
                                                 Member(<<BonusKeys[i]>>, bonus[i].v)])))

\* the handler of json.JSONDecodeError in parse_scoring_output
ExtractScoring(raw) ==
    LET closed == SearchClosedBlock(raw)
        first == JsonLoads(closed.group)
        open == SearchOpenBlock(raw)
        second == JsonLoads(open.group)
        third == JsonLoads(Drop(raw, Find(raw, "{") - 1))
    IN  IF ~closed.found \/ ~first.ok THEN Raises("ValueError", {})
        ELSE IF ~Has(first.v, OverallKey) THEN Raises("ValueError", {"overall_score_0_100"})
        ELSE IF ~Has(first.v, <<"rubric_scores">>) THEN Raises("ValueError", {"rubric_scores"})
        ELSE IF open.found /\ second.ok THEN Returned(second.v)
        ELSE IF Find(raw, "{") # 0 /\ third.ok THEN Returned(third.v)
        ELSE Raises("ValueError", {})

\* parse_scoring_output(raw)
ParseScoringOutput(raw) ==
    IF JsonLoads(CleanedRaw(raw)).ok
    THEN NormalizeScoring(JsonLoads(CleanedRaw(raw)).v)
    ELSE ExtractScoring(raw)

(***************************************************************************)
(* Direct calls of parse_scoring_output                                    *)
(***************************************************************************)
\* a component as the object {"points": p}
PointsObj(p) == JObj(<<Member(<<"points">>, p)>>)

\* a component as the object {"points": p, "max": m}
PointsMaxObj(p, m) == JObj(<<Member(<<"points">>, p), Member(<<"max">>, m)>>)

\* what the grading oracle may give as coverage; << >> is a response without it
CoverageGiven ==
    {<< >>, <<JNum(75)>>, <<JInt(20)>>, <<PointsObj(JNum(75))>>, <<PointsObj(JInt(25))>>,
     <<PointsObj(JInt(-1))>>, <<PointsMaxObj(JInt(7), JInt(100))>>}

\* what the grading oracle may give as screenshots_evidence
ScreenshotsGiven == {<< >>, <<JNum(75)>>, <<PointsObj(JNum(75))>>}

\* what the grading oracle may give as bonus_scores
BonusGiven ==
    {<< >>,
     <<JObj(<<Member(<<"bonus_exceptional_quality">>, PointsObj(JNum(15)))>>)>>}

\* the key the grading oracle uses for the overall score; << >> is a response without one
OverallGiven == {<< >>, OverallKey, <<"total_score">>}

\* a member list: empty when given is << >>
Given(key, given) == IF given = << >> THEN << >> ELSE <<Member(key, given[1])>>

\* a response with rubric_scores
ScoringValue(overall, cov, shots, bonus) ==
    JObj((IF overall = << >> THEN << >> ELSE <<Member(overall, JInt(85))>>)
         \o <<Member(<<"rubric_scores">>,
                     JObj(Given(<<"coverage">>, cov) \o Given(<<"screenshots_evidence">>, shots)))>>
         \o Given(<<"bonus_scores">>, bonus))

ScoringValues ==
    {ScoringValue(o, c, sh, b) :
        o \in OverallGiven, c \in CoverageGiven, sh \in ScreenshotsGiven, b \in BonusGiven}
        \cup {JObj(<<Member(OverallKey, JInt(85))>>), JArr(<< >>), JInt(85)}

Prose == <<"Here", " ", "is", " ", "the", " ", "grading", " ">>

MaxCut == 2

\* the ways the grading oracle may write a value: as it is, inside a code fence, inside
\* a code fence after prose, after prose without a fence, or cut short
ScoringTexts(v) ==
    {[form |-> "plain", raw |-> JsonDumps(v), supplied |-> v],
     [form |-> "fenced", raw |-> <<Fence, "json", " ">> \o JsonDumps(v) \o <<" ", Fence>>,
      supplied |-> v],
     [form |-> "prose_fenced",
      raw |-> Prose \o <<Fence, "json", " ">> \o JsonDumps(v) \o <<" ", Fence>>, supplied |-> v],
     [form |-> "prose", raw |-> Prose \o JsonDumps(v), supplied |-> v]}
        \cup {[form |-> "cut", raw |-> Take(JsonDumps(v), Len(JsonDumps(v)) - k), supplied |-> v] :
                 k \in 1..MaxCut}

ScoringInputs ==
    UNION {ScoringTexts(v) : v \in ScoringValues}
        \cup {[form |-> "empty", raw |-> << >>, supplied |-> JNull],
              [form |-> "refusal", raw |-> <<"Sorry">>, supplied |-> JNull]}

InitScore ==
    /\ IdleStore
    /\ lastOp = Op("init", "n/a", "ok")
    /\ input \in ScoringInputs
    /\ output = << >>

\* parse_scoring_output(input.raw)
CallParseScoringOutput ==
    /\ lastOp.name = "init"
    /\ output' = ParseScoringOutput(input.raw)
    /\ lastOp' = Op("parse_scoring_output", "n/a", "ok")
    /\ UNCHANGED <<docVars, oracleRequest, input>>

NextScore == CallParseScoringOutput

SpecScore == InitScore /\ [][NextScore]_vars

\* parse_scoring_output has returned a ScoringOutput
ScoringReturned == lastOp.name = "parse_scoring_output" /\ output.status = "ok"

\* the members of the rubric_scores or bonus_scores of a ScoringOutput
ComponentsOf(scoring, section) ==
    IF Has(scoring, section) /\ Get(scoring, section).t = "obj"
    THEN Get(scoring, section).m
    ELSE << >>

\* rubric and bonus components of the returned ScoringOutput
ReturnedComponents ==
    ComponentsOf(output.out, <<"rubric_scores">>) \o ComponentsOf(output.out, <<"bonus_scores">>)

\* the fixed maximum of a component
FixedMax(key) == IF key \in DOMAIN MaxPoints THEN MaxPoints[key] ELSE BonusMax[key]

\* the points of a component, given as an object or as a bare number
PointsOf(component) ==
    IF component.t = "obj" /\ Has(component, <<"points">>)
    THEN Get(component, <<"points">>)
    ELSE component

\* C11: in every ScoringOutput returned by parse_scoring_output, on any parse path, each
\* rubric and bonus component has max equal to its fixed maximum and 0 <= points <= max,
\* whatever points or max the grading oracle supplied.
C11_ComponentsClamped ==
    ScoringReturned =>
        \A i \in 1..Len(ReturnedComponents) :
            LET c == ReturnedComponents[i].v
                fixed == FixedMax(ReturnedComponents[i].k[1])
            IN  /\ c.t = "obj" /\ Has(c, <<"points">>) /\ Has(c, <<"max">>)
                /\ Get(c, <<"max">>) = JInt(fixed)
                /\ Get(c, <<"points">>).t = "num"
                /\ Get(c, <<"points">>).n >= 0
                /\ Get(c, <<"points">>).n <= 10 * fixed

\* the oracle gave screenshots_evidence the half-point value 7.5
SuppliedHalfPointScreenshots ==
    /\ Has(input.supplied, <<"rubric_scores">>)
    /\ Has(Get(input.supplied, <<"rubric_scores">>), <<"screenshots_evidence">>)
    /\ PointsOf(Get(Get(input.supplied, <<"rubric_scores">>), <<"screenshots_evidence">>)) = JNum(75)

\* C12: in every ScoringOutput returned by parse_scoring_output every component except
\* screenshots_evidence has integer points, and a screenshots_evidence value of 7.5 is
\* preserved unrounded, whether the oracle gave the component as an object or as a bare
\* number.
C12_IntegerExceptScreenshots ==
    ScoringReturned =>
        /\ \A i \in 1..Len(ReturnedComponents) :
               ReturnedComponents[i].k # <<"screenshots_evidence">> =>
                   /\ PointsOf(ReturnedComponents[i].v).t = "num"
                   /\ PointsOf(ReturnedComponents[i].v).n % 10 = 0
        /\ SuppliedHalfPointScreenshots =>
               \E i \in 1..Len(ReturnedComponents) :
                   /\ ReturnedComponents[i].k = <<"screenshots_evidence">>
                   /\ PointsOf(ReturnedComponents[i].v) = JNum(75)

\* the text holds a JSON record with rubric_scores and an overall score under either key,
\* written plainly or inside a code fence
BothShapesInput ==
    /\ input.form \in {"plain", "fenced", "prose_fenced"}
    /\ Has(input.supplied, <<"rubric_scores">>)
    /\ Has(input.supplied, OverallKey) \/ Has(input.supplied, <<"total_score">>)

\* C13: on every parse path (direct parse and extraction from a fenced block) a response
\* with the legacy total_score key is accepted and returned with overall_score_0_100 set
\* to that value, and each component is accepted as a {points,max,explanation} object or
\* as a bare number.
C13_BothShapesAccepted ==
    (lastOp.name = "parse_scoring_output" /\ BothShapesInput) =>
        /\ output.status = "ok"
        /\ Has(output.out, OverallKey)
        /\ Get(output.out, OverallKey) = JInt(85)
        /\ \A i \in 1..Len(ComponentsOf(input.supplied, <<"rubric_scores">>)) :
               LET key == ComponentsOf(input.supplied, <<"rubric_scores">>)[i].k
               IN  \E j \in 1..Len(ReturnedComponents) :
                       /\ ReturnedComponents[j].k = key
                       /\ ReturnedComponents[j].v.t = "obj"
                       /\ Has(ReturnedComponents[j].v, <<"points">>)
                       /\ Has(ReturnedComponents[j].v, <<"max">>)
                       /\ Has(ReturnedComponents[j].v, <<"explanation">>)

\* the text still shows an overall score: the key, a colon and a digit
Salvageable(raw) ==
    \E i \in 1..(Len(raw) - 3) :
        /\ raw[i] \in {"overall_score_0_100", "total_score"}
        /\ raw[i + 1] = Quote
        /\ raw[i + 2] = ":"
        /\ IsDigit(raw[i + 3])

\* C14: for a response that is truncated, lacks closers or is JSON preceded by prose
\* without code fences, but still shows an overall score, parse_scoring_output returns a
\* ScoringOutput; it raises only when nothing is salvageable, and the error then names
\* the missing required top-level key.
C14_SalvageOrNamedError ==
    lastOp.name = "parse_scoring_output" =>
        /\ (input.form \in {"cut", "prose"} /\ Salvageable(input.raw)) => output.status = "ok"
        /\ output.status # "ok" => output.missing # {}

(***************************************************************************)
(* fix_incomplete_json                                                     *)
(***************************************************************************)
\* s.lstrip()
LStrip(s) == Drop(s, SkipWs(s, 1) - 1)

\* s.rstrip()
RStrip(s) ==
    IF \E i \in 1..Len(s) : s[i] # " "
    THEN Take(s, CHOOSE i \in 1..Len(s) : s[i] # " " /\ \A j \in (i + 1)..Len(s) : s[j] = " ")
    ELSE << >>

\* s.count(c)
Count(s, c) == Cardinality({i \in 1..Len(s) : s[i] = c})

\* s.count(a + b) for two symbols a # b
CountPair(s, a, b) == Cardinality({i \in 1..(Len(s) - 1) : s[i] = a /\ s[i + 1] = b})

\* c * n (empty when n is not positive)
Repeat(c, n) == [i \in 1..Max(n, 0) |-> c]

RECURSIVE DropCommasBefore(_, _, _)
\* re.sub(',\s*' + closer, closer, s), from position i on
DropCommasBefore(s, closer, i) ==
    IF i > Len(s) THEN << >>
    ELSE IF s[i] = "," /\ SkipWs(s, i + 1) <= Len(s) /\ s[SkipWs(s, i + 1)] = closer
         THEN <<closer>> \o DropCommasBefore(s, closer, SkipWs(s, i + 1) + 1)
         ELSE <<s[i]>> \o DropCommasBefore(s, closer, i + 1)

\* the two re.sub calls that remove a comma in front of a closer
DropTrailingCommas(s) ==
    Once(LAMBDA braces : Once(LAMBDA brackets : brackets, DropCommasBefore(braces, "]", 1)),
         DropCommasBefore(s, "}", 1))

\* the "Fix unclosed strings" block, entered with a text whose last symbol is no closer
CloseString(s) ==
    LET quoted == IF (Count(s, Quote) - CountPair(s, Backslash, Quote)) % 2 # 0
                  THEN s \o <<Quote>> ELSE s
        r == RStrip(quoted)
        uncomma == IF r[Len(r)] = "," THEN Take(r, Len(r) - 1) ELSE quoted
        last == RStrip(uncomma)[Len(RStrip(uncomma))]
    IN  IF r[Len(r)] \in {"}", "]", Quote} THEN quoted
        ELSE IF last \in {"}", "]"} THEN uncomma
        ELSE (IF Count(uncomma, Quote) > 0 THEN uncomma \o <<Quote>> ELSE uncomma) \o <<"}">>

\* fix_incomplete_json(json_str)
FixIncompleteJson(json_str) ==
    Once(LAMBDA text :
             LET braced == IF StartsWith(Strip(text), <<"{">>) THEN text
                           ELSE <<"{">> \o LStrip(text)
             IN  IF Strip(text) = << >> THEN <<"{", "}">>
                 ELSE Once(LAMBDA closed :
                               IF closed[Len(closed)] \in {"}", "]"} THEN DropTrailingCommas(closed)
                               ELSE Once(LAMBDA string_closed : DropTrailingCommas(string_closed),
                                         CloseString(closed)),
                           RStrip(braced
                                  \o Repeat("]", Count(braced, "[") - Count(braced, "]"))
                                  \o Repeat("}", Count(braced, "{") - Count(braced, "}")))),
         json_str)

(***************************************************************************)
(* Direct calls of fix_incomplete_json                                     *)
(***************************************************************************)
\* pieces of a string value: a letter, each bracket, a comma, a blank, an escaped quote
StringPieces ==
    {<<"x">>, <<"{">>, <<"}">>, <<"[">>, <<"]">>, <<",">>, <<" ">>, <<Backslash, Quote>>}

MaxPieces == 2

\* string contents made of at most MaxPieces pieces
StringContents ==
    UNION {{Flatten(f) : f \in [1..n -> StringPieces]} : n \in 0..MaxPieces}

\* records with one string value, and records with a nested list, record and number
FixRecords ==
    {JObj(<<Member(<<"a">>, JStr(c))>>) : c \in StringContents}
        \cup {JObj(<<Member(<<"a">>, JArr(<<Member(<< >>, JInt(1)), Member(<< >>, JObj(<< >>))>>)),
                     Member(<<"b">>, JNum(75))>>),
              JObj(<< >>)}

\* each record as json.dumps writes it, and the same text cut short
FixInputs ==
    {[form |-> "valid", raw |-> JsonDumps(v)] : v \in FixRecords}
        \cup {[form |-> "cut", raw |-> Take(JsonDumps(v), Len(JsonDumps(v)) - k)] :
                 v \in FixRecords, k \in 1..MaxCut}

InitFix ==
    /\ IdleStore
    /\ lastOp = Op("init", "n/a", "ok")
    /\ input \in FixInputs
    /\ output = << >>

\* fix_incomplete_json(input.raw)
CallFixIncompleteJson ==
    /\ lastOp.name = "init"
    /\ output' = FixIncompleteJson(input.raw)
    /\ lastOp' = Op("fix_incomplete_json", "n/a", "ok")
    /\ UNCHANGED <<docVars, oracleRequest, input>>

NextFix == CallFixIncompleteJson

SpecFix == InitFix /\ [][NextFix]_vars

\* C16: for every text that already parses as a JSON record, fix_incomplete_json returns
\* a text that parses to the same value, also when string values hold brackets, a quote
\* or a comma in front of a closer.
C16_RepairNoOpOnValid ==
    (lastOp.name = "fix_incomplete_json" /\ JsonLoads(input.raw).ok) =>
        /\ JsonLoads(output).ok
        /\ JsonLoads(output).v = JsonLoads(input.raw).v

(***************************************************************************)
(* extract_partial_json                                                    *)
(***************************************************************************)
\* s[i] == c, false outside the text
At(s, i, c) == i >= 1 /\ i <= Len(s) /\ s[i] = c

\* a string value made of one word or message
Text(word) == JStr(<<word>>)

\* a dict member whose key is one word
Entry(key, v) == Member(<<key>>, v)

\* position after: quote name quote blanks ":" blanks, when that stands at i; 0 otherwise
AfterKey(s, i, name) ==
    IF At(s, i, Quote) /\ At(s, i + 1, name) /\ At(s, i + 2, Quote)
           /\ At(s, SkipWs(s, i + 3), ":")
    THEN SkipWs(s, SkipWs(s, i + 3) + 1)
    ELSE 0

\* position of the first quote from i on, 0 if none
NextQuote(s, i) ==
    IF \E e \in i..Len(s) : s[e] = Quote
    THEN CHOOSE e \in i..Len(s) : s[e] = Quote /\ \A j \in i..(e - 1) : s[j] # Quote
    ELSE 0

\* the group ([^"]*) of a quoted text that opens at q, when it is closed
QuotedAt(s, q) ==
    IF At(s, q, Quote) /\ NextQuote(s, q + 1) # 0
    THEN [found |-> TRUE, group |-> SubSeq(s, q + 1, NextQuote(s, q + 1) - 1),
          next |-> NextQuote(s, q + 1) + 1]
    ELSE [found |-> FALSE, group |-> << >>, next |-> 0]

\* SearchTextField that reads no field
SearchTextField_Unread(s, name) == NoMatch

\* re.search('"name"\s*:\s*"([^"]*)"', s)
SearchTextField(s, name) ==
    LET hits == {i \in 1..Len(s) : AfterKey(s, i, name) # 0 /\ QuotedAt(s, AfterKey(s, i, name)).found}
    IN  IF hits = {} THEN NoMatch
        ELSE [found |-> TRUE,
              group |-> QuotedAt(s, AfterKey(s, CHOOSE a \in hits : \A b \in hits : a <= b, name)).group]

\* re.search('"skip_analysis"\s*:\s*(true|false)', s)
SearchSkip(s) ==
    LET hits == {i \in 1..Len(s) : AfterKey(s, i, "skip_analysis") # 0
                    /\ (At(s, AfterKey(s, i, "skip_analysis"), "true")
                        \/ At(s, AfterKey(s, i, "skip_analysis"), "false"))}
    IN  IF hits = {} THEN NoMatch
        ELSE [found |-> TRUE,
              group |-> <<s[AfterKey(s, CHOOSE a \in hits : \A b \in hits : a <= b, "skip_analysis")]>>]

NoScore == [found |-> FALSE, points |-> 0, max |-> 0, comment |-> << >>]

\* the score pattern tried at position i:
\* "field"\s*:\s*\{"points"\s*:\s*(\d+),\s*"max"\s*:\s*(\d+)(?:,\s*"comment"\s*:\s*"([^"]*)")?
ScoreAt(s, i, field) ==
    LET b == AfterKey(s, i, field)
        p == AfterKey(s, b + 1, "points")
        pe == DigitsEnd(s, p)
        m == AfterKey(s, SkipWs(s, pe + 1), "max")
        me == DigitsEnd(s, m)
        c == AfterKey(s, SkipWs(s, me + 1), "comment")
    IN  IF b = 0 \/ ~At(s, b, "{") THEN NoScore
        ELSE IF p = 0 \/ pe = p \/ ~At(s, pe, ",") THEN NoScore
        ELSE IF m = 0 \/ me = m THEN NoScore
        ELSE [found |-> TRUE,
              points |-> DecimalVal(SubSeq(s, p, pe - 1)),
              max |-> DecimalVal(SubSeq(s, m, me - 1)),
              comment |-> IF At(s, me, ",") /\ c # 0 /\ QuotedAt(s, c).found
                          THEN QuotedAt(s, c).group ELSE << >>]

\* re.search(pattern, s) for the score pattern of field
SearchScore(s, field) ==
    LET hits == {i \in 1..Len(s) : ScoreAt(s, i, field).found}
    IN  IF hits = {} THEN NoScore
        ELSE ScoreAt(s, CHOOSE a \in hits : \A b \in hits : a <= b, field)

\* score_fields, in the order of the list
ScoreFields ==
    <<"coverage", "violation_quality", "screenshots", "severity_analysis",
      "structure_navigation", "professional_quality", "writing_quality", "group_integration">>

\* max_points of extract_partial_json
PartialMaxPoints ==
    [coverage |-> 15, violation_quality |-> 20, screenshots |-> 10, severity_analysis |-> 10,
     structure_navigation |-> 10, professional_quality |-> 10, writing_quality |-> 10,
     group_integration |-> 15]

\* bonus_fields
BonusFields == <<"bonus_ai_opportunities", "bonus_exceptional_quality">>

\* bonus_max_points of extract_partial_json
PartialBonusMax == [bonus_ai_opportunities |-> 3, bonus_exceptional_quality |-> 1]

\* a score entry {"points", "max", "comment"}
ScoreEntry(points, max, comment) ==
    JObj(<<Entry("points", JInt(points)), Entry("max", JInt(max)), Entry("comment", JStr(comment))>>)

\* the entry of one field: what the pattern finds, or the default
PartialScore(s, field, default_max, default_comment) ==
    IF SearchScore(s, field).found
    THEN ScoreEntry(SearchScore(s, field).points, SearchScore(s, field).max, SearchScore(s, field).comment)
    ELSE ScoreEntry(0, default_max, default_comment)

\* feedback_match.group(1)[:1000]
FeedbackLimit == 1000

TruncatedError == "JSON was truncated, extracted partial data"

\* extract_partial_json(json_str, page_number)
ExtractPartialJson(json_str, page_number) ==
    Once(LAMBDA text :
        JObj(<<Entry("page_number", JInt(page_number)),
               Entry("skip_analysis",
                     IF SearchSkip(text).found THEN JBool(SearchSkip(text).group = <<"true">>)
                     ELSE JBool(FALSE)),
               Entry("page_type",
                     IF SearchTextField(text, "page_type").found
                     THEN JStr(SearchTextField(text, "page_type").group) ELSE Text("Unknown")),
               Entry("feedback",
                     IF SearchTextField(text, "feedback").found
                     THEN JStr(Take(SearchTextField(text, "feedback").group, FeedbackLimit))
                     ELSE JStr(<< >>)),
               Entry("error", Text(TruncatedError)),
               Entry("score_breakdown",
                     JObj([i \in 1..Len(ScoreFields) |->
                              Entry(ScoreFields[i],
                                    PartialScore(text, ScoreFields[i], PartialMaxPoints[ScoreFields[i]],
                                                 <<"Partial analysis - JSON truncated">>))])),
               Entry("bonus_scores",
                     JObj([i \in 1..Len(BonusFields) |->
                              Entry(BonusFields[i],
                                    PartialScore(text, BonusFields[i], PartialBonusMax[BonusFields[i]],
                                                 << >>))]))>>),
         json_str)

(***************************************************************************)
(* analyze_single_page: from the oracle's text to the returned record      *)
(***************************************************************************)
\* number of characters of a symbol
SymbolLen(c) == IF c = Fence THEN 3 ELSE Len(c)

RECURSIVE CharLen(_)
\* len(s) in characters
CharLen(s) == IF s = << >> THEN 0 ELSE SymbolLen(s[1]) + CharLen(Tail(s))

\* shortest stripped text that is handed to the parser
MinResponseLen == 10

\* bool(v)
Truthy(v) ==
    IF v.t = "str" THEN v.s # << >>
    ELSE IF v.t \in {"num", "bool"} THEN v.n # 0
    ELSE IF v.t = "null" THEN FALSE
    ELSE v.m # << >>

\* d.get(key, default)
GetOr(d, key, default) == IF Has(d, key) THEN Get(d, key) ELSE default

\* v == page_number for a JSON value v
EqualsNumber(v, page_number) ==
    \/ v.t = "num" /\ v.n = 10 * page_number
    \/ v.t = "bool" /\ v.n = page_number

\* role_to_type.get(role, "other")
RoleToType(role) ==
    IF role = Text("intro") THEN "introduction page"
    ELSE IF role = Text("group_collab") THEN "group collaboration page"
    ELSE IF role = Text("heuristic_explainer") THEN "heuristic explainer page"
    ELSE IF role = Text("violation_detail") THEN "heuristic violation analysis"
    ELSE IF role = Text("severity_summary") THEN "severity summary page"
    ELSE IF role = Text("conclusion") THEN "conclusion page"
    ELSE "other"

\* convert_page_analysis_to_legacy raises: an unhashable page_role, fragments that cannot
\* be iterated or whose elements are no dicts, a severity_summary or rubric_relevance
\* that is no dict
ConvertRaises(page_analysis) ==
    LET fragments == GetOr(page_analysis, <<"fragments">>, JArr(<< >>))
        summary == GetOr(page_analysis, <<"severity_summary">>, JNull)
        relevance == GetOr(page_analysis, <<"rubric_relevance">>, JObj(<< >>))
    IN  \/ GetOr(page_analysis, <<"page_role">>, Text("other")).t \in {"arr", "obj"}
        \/ fragments.t \in {"null", "num", "bool"}
        \/ fragments.t \in {"str", "obj"} /\ Truthy(fragments)
        \/ fragments.t = "arr" /\ \E i \in 1..Len(fragments.m) : fragments.m[i].v.t # "obj"
        \/ Truthy(summary) /\ summary.t # "obj"
        \/ relevance.t # "obj"

NoViolationsFeedback == "No specific heuristic violations identified on this page."

\* convert_page_analysis_to_legacy(page_analysis, page_number) for a page analysis that
\* has no fragments, main_heading and severity_summary, as every text below
ConvertPageAnalysisToLegacy(page_analysis, page_number) ==
    LET relevance == GetOr(page_analysis, <<"rubric_relevance">>, JObj(<< >>))
    IN  JObj(<<Entry("page_number", JInt(page_number)),
               Entry("skip_analysis", JBool(FALSE)),
               Entry("page_type", Text(RoleToType(GetOr(page_analysis, <<"page_role">>, Text("other"))))),
               Entry("extracted_violations", JArr(<< >>)),
               Entry("feedback", Text(NoViolationsFeedback)),
               Entry("compelling",
                     JBool(Cardinality({i \in 1..Len(relevance.m) : relevance.m[i].v = Text("high")}) >= 2))>>)

UnparsedError == "Could not parse structured JSON from response"

\* the record made when no step gave a value
SentinelRecord(response_text, page_number) ==
    JObj(<<Entry("page_number", JInt(page_number)),
           Entry("skip_analysis", JBool(FALSE)),
           Entry("page_type", Text("Unknown")),
           Entry("feedback", JStr(Take(response_text, FeedbackLimit))),
           Entry("error", Text(UnparsedError))>>)

\* a step of the ladder: the value it leaves in analysis_json (none when parsed is FALSE)
\* and the flag used_fallback
Step(parsed, analysis_json, used_fallback) ==
    [parsed |-> parsed, analysis_json |-> analysis_json, used_fallback |-> used_fallback]

\* Fallback 1: the fenced block, repaired
FencedStep(response_text) ==
    Once(LAMBDA block :
             IF ~block.found THEN Step(FALSE, JNull, FALSE)
             ELSE Once(LAMBDA loaded : IF loaded.ok THEN Step(TRUE, loaded.v, TRUE)
                                       ELSE Step(FALSE, JNull, FALSE),
                       JsonLoads(FixIncompleteJson(block.group))),
         SearchOpenBlock(response_text))

\* Fallback 2: the text from the first "{" on, repaired, then with trailing commas
\* removed and repaired again, then the partial extraction
SlicedStep(response_text, page_number, before) ==
    IF Find(response_text, "{") = 0 THEN before
    ELSE Once(LAMBDA json_str :
                  Once(LAMBDA loaded :
                           IF loaded.ok THEN Step(TRUE, loaded.v, TRUE)
                           ELSE Once(LAMBDA again :
                                         Once(LAMBDA reloaded :
                                                  IF reloaded.ok THEN Step(TRUE, reloaded.v, TRUE)
                                                  ELSE Step(TRUE, ExtractPartialJson(again, page_number), TRUE),
                                              JsonLoads(again)),
                                     FixIncompleteJson(DropTrailingCommas(json_str))),
                       JsonLoads(json_str)),
              FixIncompleteJson(Drop(response_text, Find(response_text, "{") - 1)))

\* the parsing ladder up to the sentinel
ParseResponse(response_text, page_number) ==
    Once(LAMBDA ladder :
             IF ladder.parsed /\ Truthy(ladder.analysis_json) THEN ladder
             ELSE Step(TRUE, SentinelRecord(response_text, page_number), TRUE),
         Once(LAMBDA strict :
                  IF strict.ok THEN Step(TRUE, strict.v, FALSE)
                  ELSE Once(LAMBDA fenced :
                                IF fenced.parsed /\ Truthy(fenced.analysis_json) THEN fenced
                                ELSE SlicedStep(response_text, page_number, fenced),
                            FencedStep(response_text)),
              JsonLoads(response_text)))

\* analysis_json with page_number set to the page asked for
WithPageNumber(analysis_json, page_number) ==
    IF Has(analysis_json, <<"page_number">>)
           /\ EqualsNumber(Get(analysis_json, <<"page_number">>), page_number)
    THEN analysis_json
    ELSE DictSet(analysis_json, <<"page_number">>, JInt(page_number))

\* str(e) of the exception caught
ErrorText == "str(e)"

\* the record returned for a text too short to be parsed
ShortResponse(page_number) ==
    JObj(<<Entry("status", Text("completed")),
           Entry("result",
                 JObj(<<Entry("page_number", JInt(page_number)),
                        Entry("skip_analysis", JBool(FALSE)),
                        Entry("page_type", Text("Analysis Error")),
                        Entry("feedback", Text("Unable to extract response from Gemini API")),
                        Entry("error", Text("Could not extract text from Gemini response")),
                        Entry("error_details", JNull),
                        Entry("score_breakdown",
                              JObj([i \in 1..Len(ScoreFields) |->
                                       Entry(ScoreFields[i],
                                             ScoreEntry(0, PartialMaxPoints[ScoreFields[i]],
                                                        <<"Unable to analyze - API response issue">>))]))>>))>>)

\* error_result of the handler of Exception
ErrorResult(page_number) ==
    JObj(<<Entry("page_number", JInt(page_number)),
           Entry("skip_analysis", JBool(TRUE)),
           Entry("page_type", Text("Unknown (error)")),
           Entry("skip_reason", Text("Error during analysis: " \o ErrorText)),
           Entry("error", Text(ErrorText))>>)

\* final_result: the legacy record with the parsed record under structured_analysis
FinalResult(analysis_json, page_number) ==
    Once(LAMBDA structured_analysis :
             JObj(Append(ConvertPageAnalysisToLegacy(structured_analysis, page_number).m,
                         Entry("structured_analysis", structured_analysis))),
         WithPageNumber(analysis_json, page_number))

\* what analyze_single_page does with the text response_text of page page_number:
\* the flag used_fallback, the record written to the analysis file (none when saved is
\* FALSE) and the record returned
AnalyzeResponse(response_text, page_number) ==
    IF response_text = << >> \/ CharLen(Strip(response_text)) < MinResponseLen
    THEN [used_fallback |-> FALSE, saved |-> FALSE, file |-> JNull,
          returned |-> ShortResponse(page_number)]
    ELSE Once(LAMBDA ladder :
                  IF ladder.analysis_json.t # "obj" \/ ConvertRaises(ladder.analysis_json)
                  THEN [used_fallback |-> ladder.used_fallback, saved |-> TRUE,
                        file |-> ErrorResult(page_number),
                        returned |-> JObj(<<Entry("status", Text("error")),
                                            Entry("page_number", JInt(page_number)),
                                            Entry("error", Text(ErrorText)),
                                            Entry("result", ErrorResult(page_number))>>)]
                  ELSE Once(LAMBDA final_result :
                                [used_fallback |-> ladder.used_fallback, saved |-> TRUE,
                                 file |-> final_result,
                                 returned |-> JObj(<<Entry("status", Text("completed")),
                                                     Entry("result", final_result)>>)],
                            FinalResult(ladder.analysis_json, page_number)),
              ParseResponse(response_text, page_number))

(***************************************************************************)
(* Calls of analyze_single_page with the text the oracle returned          *)
(***************************************************************************)
\* page analyses an oracle may write
LadderRecords ==
    {JObj(<<Entry("page_type", Text("intro")), Entry("feedback", Text("good"))>>),
     JObj(<<Entry("page_role", Text("conclusion")),
            Entry("skip_analysis", JBool(TRUE)),
            Entry("score_breakdown",
                  JObj(<<Entry("coverage",
                               JObj(<<Entry("points", JInt(7)), Entry("max", JInt(99)),
                                      Entry("comment", Text("c"))>>))>>)),
            Entry("feedback", Text("ok"))>>),
     JObj(<<Entry("page_role", Text("intro")), Entry("fragments", JNull)>>)}

\* the truncated text of a page analysis with blanks after ":" and ","
TruncatedExample ==
    <<"{", Quote, "page_type", Quote, ":", " ", Quote, "intro", Quote, ",", " ", Quote, "feedb">>

\* the ways the oracle may write a page analysis: as it is, inside a code fence, inside a
\* code fence after prose, after prose without a fence, with a comma before the closer,
\* cut short at any place, cut short inside an open code fence
LadderTexts(v) ==
    {[form |-> "plain", raw |-> JsonDumps(v)],
     [form |-> "fenced", raw |-> <<Fence, "json", " ">> \o JsonDumps(v) \o <<" ", Fence>>],
     [form |-> "prose_fenced", raw |-> Prose \o <<Fence, "json", " ">> \o JsonDumps(v) \o <<" ", Fence>>],
     [form |-> "prose", raw |-> Prose \o JsonDumps(v)],
     [form |-> "comma", raw |-> Take(JsonDumps(v), Len(JsonDumps(v)) - 1) \o <<",", "}">>]}
        \cup {[form |-> "cut", raw |-> Take(JsonDumps(v), n)] : n \in 1..(Len(JsonDumps(v)) - 1)}
        \cup {[form |-> "fenced_cut", raw |-> <<Fence, "json", " ">> \o Take(JsonDumps(v), n)] :
                 n \in 1..(Len(JsonDumps(v)) - 1)}

\* texts that hold no page analysis: a list, an empty record, a refusal, nothing
OtherTexts ==
    {[form |-> "list", raw |-> JsonDumps(JArr([i \in 1..5 |-> Member(<< >>, JInt(i))]))],
     [form |-> "empty_record", raw |-> <<"{">> \o Repeat(" ", MinResponseLen) \o <<"}">>],
     [form |-> "short", raw |-> <<"{", "}">>],
     [form |-> "refusal", raw |-> <<"Sorry", " ", "I", " ", "cannot", " ", "read">>],
     [form |-> "truncated_example", raw |-> TruncatedExample],
     [form |-> "nothing", raw |-> << >>]}

LadderInputs ==
    {[form |-> t.form, raw |-> t.raw, page_number |-> n] :
        t \in UNION {LadderTexts(v) : v \in LadderRecords} \cup OtherTexts, n \in PageNumbers}

InitLadder ==
    /\ IdleStore
    /\ lastOp = Op("init", "n/a", "ok")
    /\ input \in LadderInputs
    /\ output = << >>

\* analyze_single_page for page input.page_number when the oracle returns input.raw
AnalyzeSinglePageText ==
    /\ lastOp.name = "init"
    /\ output' = AnalyzeResponse(input.raw, input.page_number)
    /\ analysisFiles' =
           IF output'.saved
           THEN [analysisFiles EXCEPT ![input.page_number] =
                    [exists |-> TRUE,
                     kind |-> IF Get(output'.returned, <<"status">>) = Text("error")
                              THEN "error" ELSE "analysis",
                     page |-> output'.file]]
           ELSE analysisFiles
    /\ lastOp' = Op("analyze_single_page", "n/a", "ok")
    /\ UNCHANGED <<extraction, pagesDoc, issuesDoc, scoringDoc, oracleRequest, input, hitlVars>>

NextLadder == AnalyzeSinglePageText

SpecLadder == InitLadder /\ [][NextLadder]_vars

(***************************************************************************)
(* Claims on the parsing ladder                                            *)
(***************************************************************************)
LadderReturned == lastOp.name = "analyze_single_page"

\* the record under "result" of what the handler returned
ResultOf(returned) == Get(returned, <<"result">>)

\* the parsed record the result carries, an empty record when it carries none
StructuredOf(returned) == GetOr(ResultOf(returned), <<"structured_analysis">>, JObj(<< >>))

\* s holds the symbols sub in a row
HoldsSeq(s, sub) == \E i \in 1..(Len(s) - Len(sub) + 1) : SubSeq(s, i, i + Len(sub) - 1) = sub

\* the text without its blanks
Compact(s) == RemoveChar(s, " ")

\* the one-word values w for which the text holds the whole member "field":"w"
WholeValues(s, field) ==
    {<<Compact(s)[i + 5]>> : i \in {j \in 1..(Len(Compact(s)) - 6) :
        /\ SubSeq(Compact(s), j, j + 4) = <<Quote, field, Quote, ":", Quote>>
        /\ Compact(s)[j + 5] # Quote
        /\ Compact(s)[j + 6] = Quote}}

\* no step before the partial extraction gives a value for the text
FallsToPartial(response_text) ==
    /\ CharLen(Strip(response_text)) >= MinResponseLen
    /\ ~JsonLoads(response_text).ok
    /\ ~FencedStep(response_text).parsed
    /\ Find(response_text, "{") # 0
    /\ ~JsonLoads(FixIncompleteJson(Drop(response_text, Find(response_text, "{") - 1))).ok
    /\ ~JsonLoads(FixIncompleteJson(DropTrailingCommas(
            FixIncompleteJson(Drop(response_text, Find(response_text, "{") - 1))))).ok

\* the text is no JSON and holds no "{" a record could start at
NothingParseable(response_text) ==
    /\ CharLen(Strip(response_text)) >= MinResponseLen
    /\ ~JsonLoads(response_text).ok
    /\ Find(response_text, "{") = 0

\* C17: for any oracle text analyze_single_page returns a record; when the ladder falls
\* to partial extraction the parsed record it carries holds every page_type, feedback and
\* skip_analysis member that stands whole in the text and the error field that marks the
\* truncation; when nothing is parseable the parsed record is the sentinel with its error
\* field.
C17_LadderReturnsRecord ==
    LadderReturned =>
        /\ Has(output.returned, <<"status">>)
        /\ Has(output.returned, <<"result">>)
        /\ ResultOf(output.returned).t = "obj"
        /\ Get(ResultOf(output.returned), <<"page_number">>) = JInt(input.page_number)
        /\ FallsToPartial(input.raw) =>
               /\ Get(output.returned, <<"status">>) = Text("completed")
               /\ Get(StructuredOf(output.returned), <<"error">>) = Text(TruncatedError)
               /\ \A field \in {"page_type", "feedback"} : \A w \in WholeValues(input.raw, field) :
                      Get(StructuredOf(output.returned), <<field>>) = JStr(w)
               /\ HoldsSeq(Compact(input.raw), <<Quote, "skip_analysis", Quote, ":", "true">>) =>
                      Get(StructuredOf(output.returned), <<"skip_analysis">>) = JBool(TRUE)
        /\ NothingParseable(input.raw) =>
               /\ Get(StructuredOf(output.returned), <<"error">>) = Text(UnparsedError)
               /\ Get(StructuredOf(output.returned), <<"page_type">>) = Text("Unknown")

\* the truncated text was analysed and page_type intro was recovered with the error field
C17_Witness ==
    /\ LadderReturned
    /\ input.raw = TruncatedExample
    /\ FallsToPartial(input.raw)
    /\ Get(StructuredOf(output.returned), <<"page_type">>) = Text("intro")
    /\ Has(StructuredOf(output.returned), <<"error">>)

\* names a marker of degradation may have
MarkerKeys ==
    {<<"used_fallback">>, <<"usedFallback">>, <<"error">>, <<"explanation">>, <<"skip_reason">>,
     <<"warning">>}

\* the returned record, its result or the parsed record it carries has a marker
Marked(returned) ==
    \E key \in MarkerKeys :
        Has(returned, key) \/ Has(ResultOf(returned), key) \/ Has(StructuredOf(returned), key)

\* C18: whenever the record was obtained through a step other than the strict parse
\* (used_fallback is set), the record returned to the caller carries a marker: a
\* used-fallback flag or an error or explanation field.
C18_DegradationObservable ==
    (LadderReturned /\ output.used_fallback) => Marked(output.returned)

(***************************************************************************)
(* The score records of calculate_grading_scores, extract_partial_json and *)
(* parse_scoring_output                                                    *)
(***************************************************************************)
\* the keys of scores in calculate_grading_scores, in dict order
GradingScoreKeys ==
    <<"coverage", "violation_quality", "screenshots", "severity_analysis", "structure_navigation",
      "professional_quality", "writing_quality", "group_integration", "bonus_ai_opportunities",
      "bonus_exceptional_quality">>

\* "max" of each entry of scores in calculate_grading_scores; no statement assigns it again
GradingScoreMax ==
    [coverage |-> 15, violation_quality |-> 20, screenshots |-> 10, severity_analysis |-> 10,
     structure_navigation |-> 10, professional_quality |-> 10, writing_quality |-> 10,
     group_integration |-> 15, bonus_ai_opportunities |-> 3, bonus_exceptional_quality |-> 1]

\* key and max of one score entry
Maximum(key, max) == [key |-> key, max |-> max]

\* key and max of every entry calculate_grading_scores(pages, issues) returns
GradingMaxima(pages, issues) ==
    [i \in 1..Len(GradingScoreKeys) |->
        Maximum(GradingScoreKeys[i],
                IF GradingScoreKeys[i] = "coverage"
                THEN JInt(CalculateGradingScores(pages, issues).coverage.max)
                ELSE JInt(GradingScoreMax[GradingScoreKeys[i]]))]

\* key and max of the members of a dict of score entries; null for an entry without max
MaximaOf(members) ==
    [i \in 1..Len(members) |-> Maximum(members[i].k[1], GetOr(members[i].v, <<"max">>, JNull))]

\* key and max of every entry of the record extract_partial_json returns
PartialMaxima(json_str, page_number) ==
    Once(LAMBDA result : MaximaOf(Get(result, <<"score_breakdown">>).m \o Get(result, <<"bonus_scores">>).m),
         ExtractPartialJson(json_str, page_number))

\* key and max of every component of the ScoringOutput parse_scoring_output returns,
\* none when it raises
ScoringMaxima(raw) ==
    Once(LAMBDA parsed :
             IF parsed.status = "ok"
             THEN MaximaOf(ComponentsOf(parsed.out, <<"rubric_scores">>)
                               \o ComponentsOf(parsed.out, <<"bonus_scores">>))
             ELSE << >>,
         ParseScoringOutput(raw))

MaximaInputs ==
    {[fn |-> "calculate_grading_scores", arg |-> c] : c \in CovInputs}
        \cup {[fn |-> "extract_partial_json", arg |-> t] : t \in LadderInputs}
        \cup {[fn |-> "parse_scoring_output", arg |-> t] : t \in ScoringInputs}

InitMaxima ==
    /\ IdleStore
    /\ lastOp = Op("init", "n/a", "ok")
    /\ input \in MaximaInputs
    /\ output = << >>

\* calculate_grading_scores(input.arg.pages, input.arg.issues)
MaximaOfCalculateGradingScores ==
    /\ lastOp.name = "init"
    /\ input.fn = "calculate_grading_scores"
    /\ output' = GradingMaxima(input.arg.pages, input.arg.issues)
    /\ lastOp' = Op("score_record", "n/a", "ok")
    /\ UNCHANGED <<docVars, oracleRequest, input>>

\* extract_partial_json(input.arg.raw, input.arg.page_number)
MaximaOfExtractPartialJson ==
    /\ lastOp.name = "init"
    /\ input.fn = "extract_partial_json"
    /\ output' = PartialMaxima(input.arg.raw, input.arg.page_number)
    /\ lastOp' = Op("score_record", "n/a", "ok")
    /\ UNCHANGED <<docVars, oracleRequest, input>>

\* parse_scoring_output(input.arg.raw)
MaximaOfParseScoringOutput ==
    /\ lastOp.name = "init"
    /\ input.fn = "parse_scoring_output"
    /\ output' = ScoringMaxima(input.arg.raw)
    /\ lastOp' = Op("score_record", "n/a", "ok")
    /\ UNCHANGED <<docVars, oracleRequest, input>>

NextMaxima ==
    \/ MaximaOfCalculateGradingScores
    \/ MaximaOfExtractPartialJson
    \/ MaximaOfParseScoringOutput

SpecMaxima == InitMaxima /\ [][NextMaxima]_vars

\* the fixed maxima of the rubric and bonus components; the records of
\* calculate_grading_scores and extract_partial_json call screenshots_evidence "screenshots"
DocumentedMaxima ==
    [coverage |-> 15, violation_quality |-> 20, severity_analysis |-> 10, screenshots_evidence |-> 10,
     screenshots |-> 10, structure_navigation |-> 10, professional_quality |-> 10,
     writing_quality |-> 10, group_integration |-> 15, bonus_ai_opportunities |-> 3,
     bonus_exceptional_quality |-> 2]

\* C19: every score entry in the output of calculate_grading_scores, of
\* extract_partial_json (found and defaulted fields) and of parse_scoring_output has the
\* fixed maximum of its component: coverage 15, violation_quality 20, severity_analysis
\* 10, screenshots_evidence 10, structure_navigation 10, professional_quality 10,
\* writing_quality 10, group_integration 15, bonus_ai_opportunities 3,
\* bonus_exceptional_quality 2.
C19_FixedMaxima ==
    lastOp.name = "score_record" =>
        \A i \in 1..Len(output) :
            /\ output[i].key \in DOMAIN DocumentedMaxima
            /\ output[i].max = JInt(DocumentedMaxima[output[i].key])

(***************************************************************************)
(* save_override, report_ai_error and the corrections store                *)
(***************************************************************************)
\* str(v) of a number, a string or None
PyStr(v) ==
    IF v.t = "str" THEN v.s
    ELSE IF v.t = "num" THEN NumberText(v.n)
    ELSE <<"None">>

\* the component a field path names: its second part when the path has a ".", else the
\* whole field
ComponentOf(field) ==
    LET rest == Drop(field, Find(field, "."))
    IN  IF Find(field, ".") = 0 THEN field
        ELSE IF Find(rest, ".") = 0 THEN rest
        ELSE Take(rest, Find(rest, ".") - 1)

\* auto_set_notes: notes that raise no risk flag
AutoSetNotes == {"Auto-set:", "auto-set:", "Auto-generated", "auto-generated"}

\* reviewer_notes and reviewer_notes.strip()
HasNotes(reviewer_notes) == Strip(reviewer_notes) # << >>

\* is_auto_note
IsAutoNote(reviewer_notes) == \E i \in 1..Len(reviewer_notes) : reviewer_notes[i] \in AutoSetNotes

\* override_record; id and timestamp, which come from the clock, are left out
OverrideRecord(request) ==
    [jobId |-> request.jobId, pageNumber |-> request.pageNumber, field |-> request.field,
     originalValue |-> request.originalValue, overrideValue |-> request.overrideValue,
     reviewerNotes |-> request.reviewerNotes]

\* positions of the overrides that have the page, field and values of the request
ExistingOverrides(overrides, request) ==
    {i \in 1..Len(overrides) :
        /\ overrides[i].pageNumber = request.pageNumber
        /\ overrides[i].field = request.field
        /\ overrides[i].originalValue = request.originalValue
        /\ overrides[i].overrideValue = request.overrideValue}

\* the overrides list after the request: a new record appended, or the notes of the first
\* existing record replaced when the request has notes
OverridesAfter(overrides, request) ==
    IF ExistingOverrides(overrides, request) = {} THEN Append(overrides, OverrideRecord(request))
    ELSE IF HasNotes(request.reviewerNotes)
    THEN [overrides EXCEPT
             ![CHOOSE i \in ExistingOverrides(overrides, request) :
                   \A j \in ExistingOverrides(overrides, request) : i <= j].reviewerNotes =
                 request.reviewerNotes]
    ELSE overrides

\* the riskPages list after the request: the page is flagged when the notes are the
\* reviewer's own and the page has no flag yet
RiskFlagsAfter(riskPages, request) ==
    IF /\ HasNotes(request.reviewerNotes)
       /\ ~IsAutoNote(request.reviewerNotes)
       /\ \A i \in 1..Len(riskPages) : riskPages[i].pageNumber # request.pageNumber
    THEN Append(riskPages, [pageNumber |-> request.pageNumber, notes |-> request.reviewerNotes])
    ELSE riskPages

\* the correction save_override makes of an override; id and timestamp are left out
OverrideCorrection(request) ==
    [jobId |-> request.jobId, pageNumber |-> request.pageNumber,
     component |-> ComponentOf(request.field),
     reason |-> <<"TA override: Changed ">> \o request.field \o <<" from ">>
                    \o PyStr(request.originalValue) \o <<" to ">> \o PyStr(request.overrideValue)
                    \o (IF request.reviewerNotes # << >>
                        THEN <<". Notes: ">> \o request.reviewerNotes ELSE << >>),
     originalValue |-> request.originalValue, correctedValue |-> request.overrideValue,
     reviewerNotes |-> IF request.reviewerNotes # << >> THEN request.reviewerNotes
                       ELSE <<"Auto-generated from override">>,
     source |-> "auto_from_override"]

\* correction_exists: a correction with the job, page and component of the override and
\* values that read the same as text
CorrectionExists(corrections, request) ==
    \E i \in 1..Len(corrections) :
        /\ corrections[i].jobId = request.jobId
        /\ corrections[i].pageNumber = request.pageNumber
        /\ corrections[i].component = ComponentOf(request.field)
        /\ PyStr(corrections[i].originalValue) = PyStr(request.originalValue)
        /\ PyStr(corrections[i].correctedValue) = PyStr(request.overrideValue)

\* save_correction(correction): the corrections list written back
SaveCorrection(corrections, correction) == Append(corrections, correction)

\* the correction report_ai_error makes of a request; id and timestamp are left out
ReportedCorrection(request) ==
    [jobId |-> request.jobId, pageNumber |-> request.pageNumber, component |-> request.component,
     reason |-> request.reason, originalValue |-> request.originalValue,
     correctedValue |-> request.correctedValue, reviewerNotes |-> request.reviewerNotes]

(***************************************************************************)
(* Calls of save_override and report_ai_error                              *)
(***************************************************************************)
JobId == <<"job1">>

\* most records a store is let grow to
MaxRecords == 3

FieldPaths == {<<"score_breakdown", ".", "coverage", ".", "points">>, <<"coverage">>}

GivenValues == {JInt(12), JStr(<<"1", "2">>)}

GivenNotes == {<< >>, <<"check">>, <<"Auto-set:", " ", "covered">>}

OverrideRequests ==
    {[jobId |-> j, pageNumber |-> 1, field |-> f, originalValue |-> JInt(10),
      overrideValue |-> v, reviewerNotes |-> n] :
        j \in {JobId, << >>}, f \in FieldPaths, v \in GivenValues, n \in GivenNotes}

ErrorReports ==
    {[jobId |-> JobId, pageNumber |-> 1, component |-> <<"coverage">>, reason |-> r,
      originalValue |-> JInt(10), correctedValue |-> v, reviewerNotes |-> << >>] :
        r \in {<<"wrong">>, << >>}, v \in GivenValues}

InitCorrections ==
    /\ IdleStore
    /\ lastOp = Op("init", "n/a", "ok")
    /\ input = << >>
    /\ output = << >>

\* POST /api/save-override
SaveOverride ==
    \E request \in OverrideRequests :
        /\ Len(overridesDoc) < MaxRecords
        /\ Len(correctionsDoc) < MaxRecords
        /\ IF request.jobId = << >>
           THEN /\ lastOp' = Op("save_override", "n/a", "400")
                /\ UNCHANGED hitlVars
           ELSE /\ overridesDoc' = OverridesAfter(overridesDoc, request)
                /\ riskFlagsDoc' = RiskFlagsAfter(riskFlagsDoc, request)
                /\ correctionsDoc' =
                       IF /\ ExistingOverrides(overridesDoc, request) = {}
                          /\ ~CorrectionExists(correctionsDoc, request)
                       THEN SaveCorrection(correctionsDoc, OverrideCorrection(request))
                       ELSE correctionsDoc
                /\ lastOp' = Op("save_override", "n/a",
                                IF /\ ExistingOverrides(overridesDoc, request) = {}
                                   /\ ~CorrectionExists(correctionsDoc, request)
                                THEN "success" ELSE "500")
        /\ UNCHANGED <<extraction, analysisFiles, pagesDoc, issuesDoc, scoringDoc, gradeVars,
                       jobVars, oracleRequest, input, output>>

\* POST /api/report-ai-error
ReportAiError ==
    \E request \in ErrorReports :
        /\ Len(correctionsDoc) < MaxRecords
        /\ IF request.jobId = << >> \/ request.component = << >> \/ request.reason = << >>
           THEN /\ lastOp' = Op("report_ai_error", "n/a", "400")
                /\ UNCHANGED correctionsDoc
           ELSE /\ correctionsDoc' = SaveCorrection(correctionsDoc, ReportedCorrection(request))
                /\ lastOp' = Op("report_ai_error", "n/a", "success")
        /\ UNCHANGED <<extraction, analysisFiles, pagesDoc, issuesDoc, scoringDoc, overridesDoc,
                       riskFlagsDoc, gradeVars, jobVars, oracleRequest, input, output>>

NextCorrections == SaveOverride \/ ReportAiError

SpecCorrections == InitCorrections /\ [][NextCorrections]_vars

\* job, page, component and values of a correction
CorrectionKey(correction) ==
    <<correction.jobId, correction.pageNumber, correction.component,
      correction.originalValue, correction.correctedValue>>

\* C20: after any sequence of save_override and report_ai_error calls the corrections
\* store holds at most one correction for each combination of job, target page,
\* component, original value and corrected value.
C20_NoDuplicateCorrections ==
    \A i, j \in 1..Len(correctionsDoc) :
        i < j => CorrectionKey(correctionsDoc[i]) # CorrectionKey(correctionsDoc[j])

(***************************************************************************)
(* Direct calls of calculate_grading_scores: the severity_analysis         *)
(* criterion                                                               *)
(***************************************************************************)
MaxSeverityPages == 2

\* a page as calculate_grading_scores reads it: its role and its rubric_relevance map
RolePage(role, relevance) == [page_role |-> role, rubric_relevance |-> relevance]

\* rubric_relevance maps the page classifier returns: a severity_analysis level, or none given
SeverityRelevance ==
    {[severity_analysis |-> level] : level \in {"high", "med", "low", "none"}}
        \cup {[structure_navigation |-> "high"]}

SeverityRoles == {"violation_detail", "severity_summary", "intro"}

SeverityPageLists ==
    UNION {[1..n -> {RolePage(role, relevance) : role \in SeverityRoles,
                                                  relevance \in SeverityRelevance}] :
           n \in 0..MaxSeverityPages}

SeverityInputs ==
    {[pages |-> p, issues |-> i] : p \in SeverityPageLists, i \in {<< >>, CovIssues(1, 1, 0)}}

InitSeverity ==
    /\ IdleStore
    /\ lastOp = Op("init", "n/a", "ok")
    /\ input \in SeverityInputs
    /\ output = << >>

SpecSeverity == InitSeverity /\ [][NextCov]_vars

\* the positions of the pages with one of the given roles
RolePositions(pages, roles) == {i \in 1..Len(pages) : pages[i].page_role \in roles}

\* the number of those pages whose severity_analysis relevance is the given level
LevelCount(pages, positions, level) ==
    Cardinality({i \in positions :
        /\ "severity_analysis" \in DOMAIN pages[i].rubric_relevance
        /\ pages[i].rubric_relevance.severity_analysis = level})

\* 10 for every high, 7 for every med and 4 for every low page among the positions
LevelTotal(pages, positions) ==
    10 * LevelCount(pages, positions, "high") + 7 * LevelCount(pages, positions, "med")
        + 4 * LevelCount(pages, positions, "low")

\* points is total / count rounded to the nearest integer, a half to the even one
IsRoundedAverage(points, total, count) ==
    /\ 2 * (total - points * count) <= count
    /\ 2 * (points * count - total) <= count
    /\ (2 * (total - points * count) = count \/ 2 * (points * count - total) = count)
           => points % 2 = 0

Timestamp == "now"

\* pages.json of an analysed job
GradedPages ==
    [exists |-> TRUE,
     pages |-> <<RolePage("violation_detail", [violation_quality |-> "high"]),
                 RolePage("severity_summary", [severity_analysis |-> "med"])>>]

\* the override and the risk flag save_override stored for a reviewer's note on page 1
NotedOverride ==
    [jobId |-> JobId, pageNumber |-> 1, field |-> <<"coverage">>, originalValue |-> JInt(10),
     overrideValue |-> JInt(12), reviewerNotes |-> <<"check">>]

\* the job's documents when the grading handlers are called: nothing analysed yet, or
\* both pages analysed and aggregated, with or without a noted override and a scoring
GradingJobs ==
    {[pages |-> NoPages, issues |-> NoIssues, overrides |-> << >>, riskPages |-> << >>,
      scoring |-> NoScoring],
     [pages |-> GradedPages, issues |-> [exists |-> TRUE, issues |-> CovIssues(1, 1, 0)],
      overrides |-> <<OverrideRecord(NotedOverride)>>,
      riskPages |-> RiskFlagsAfter(<< >>, NotedOverride),
      scoring |-> [exists |-> TRUE, scoring |-> "s1"]],
     [pages |-> GradedPages, issues |-> [exists |-> TRUE, issues |-> CovIssues(10, 12, 0)],
      overrides |-> << >>, riskPages |-> << >>, scoring |-> NoScoring]}

\* the "scores" of a save-grading-scores request: per component the fields the TA set
ScoresGiven ==
    {<< >>,
     [coverage |-> [points |-> 15, ta_points |-> 12, ta_comment |-> <<"ok">>]],
     [severity_analysis |-> [ta_points |-> 3]],
     [coverage |-> [points |-> 9]]}

GradingScoresRequests == {[jobId |-> j, scores |-> sc] : j \in {JobId, << >>}, sc \in ScoresGiven}

InitGrading ==
    /\ \E job \in GradingJobs :
           /\ pagesDoc = job.pages
           /\ issuesDoc = job.issues
           /\ analysisFiles = [n \in PageNumbers |->
                                  IF job.pages.exists THEN AnalysisFile(job.pages.pages[n])
                                  ELSE NoFile]
           /\ overridesDoc = job.overrides
           /\ riskFlagsDoc = job.riskPages
           /\ scoringDoc = job.scoring
    /\ extraction = TRUE
    /\ correctionsDoc = << >>
    /\ gradingScoresDoc = NoDocument
    /\ finalGradeDoc = NoDocument
    /\ issueScoresDoc = NoDocument
    /\ jobFiles = << >>
    /\ calls = << >>
    /\ lastOp = Op("init", "n/a", "ok")
    /\ oracleRequest = << >>
    /\ input = << >>
    /\ output = << >>

\* POST /api/save-grading-scores
SaveGradingScores ==
    \E request \in GradingScoresRequests :
        /\ IF request.jobId = << >> \/ request.scores = << >>
           THEN /\ lastOp' = Op("save_grading_scores", "n/a", "400")
                /\ output' = << >>
                /\ UNCHANGED gradingScoresDoc
           ELSE /\ gradingScoresDoc' = [scores |-> request.scores, timestamp |-> Timestamp]
                /\ lastOp' = Op("save_grading_scores", "n/a", "success")
                /\ output' = [status |-> "success", jobId |-> request.jobId,
                              scores |-> request.scores]
        /\ UNCHANGED <<extraction, analysisFiles, pagesDoc, issuesDoc, scoringDoc, overridesDoc,
                       correctionsDoc, riskFlagsDoc, finalGradeDoc, issueScoresDoc, jobVars,
                       oracleRequest, input>>

\* "Merge saved TA scores with calculated scores": the loop over the keys of scores
MergeSavedScores(scores, saved_scores) ==
    [key \in DOMAIN scores |->
        IF /\ key \in DOMAIN saved_scores
           /\ "ta_points" \in DOMAIN saved_scores[key]
        THEN [ta_points |-> saved_scores[key].ta_points,
              ta_comment |-> FieldOr(saved_scores[key], "ta_comment", << >>)]
                 @@ scores[key]
        ELSE scores[key]]

\* GET /api/calculate-grading-scores
CalculateGradingScoresEndpoint ==
    /\ output' = [jobId |-> JobId,
                  scores |-> IF gradingScoresDoc # NoDocument
                             THEN MergeSavedScores(
                                      CalculateGradingScores(pagesDoc.pages, issuesDoc.issues),
                                      gradingScoresDoc)
                             ELSE CalculateGradingScores(pagesDoc.pages, issuesDoc.issues)]
    /\ lastOp' = Op("calculate_grading_scores_endpoint", "n/a", "ok")
    /\ UNCHANGED <<docVars, oracleRequest, input>>

\* the body of a save-final-grade request; finalGrade None when the key is missing
FinalGradeRequests ==
    {[jobId |-> j, finalGrade |-> g] : j \in {JobId, << >>}, g \in {None, "A", "B"}}

\* POST /api/save-final-grade
SaveFinalGrade ==
    \E request \in FinalGradeRequests :
        /\ IF request.jobId = << >> \/ request.finalGrade = None
           THEN /\ lastOp' = Op("save_final_grade", "n/a", "400")
                /\ UNCHANGED finalGradeDoc
           ELSE /\ finalGradeDoc' = [finalGrade |-> request.finalGrade, overallFeedback |-> "",
                                     timestamp |-> Timestamp]
                /\ lastOp' = Op("save_final_grade", "n/a", "success")
        /\ output' = << >>
        /\ UNCHANGED <<extraction, analysisFiles, pagesDoc, issuesDoc, scoringDoc, overridesDoc,
                       correctionsDoc, riskFlagsDoc, gradingScoresDoc, issueScoresDoc, jobVars,
                       oracleRequest, input>>

\* the body of a save-issue-scores request
IssueScoresRequests ==
    {[jobId |-> JobId, issueId |-> i, scores |-> sc] :
        i \in {"", "issue_001"}, sc \in {<< >>, [final_score |-> 3], [final_score |-> 4]}}

\* data.get("issues", {}) of issue_scores.json, {} when there is no such file
StoredIssueScores == IF issueScoresDoc = NoDocument THEN << >> ELSE issueScoresDoc.issues

\* POST /api/save-issue-scores
SaveIssueScores ==
    \E request \in IssueScoresRequests :
        /\ IF request.jobId = << >> \/ request.issueId = "" \/ request.scores = << >>
           THEN /\ lastOp' = Op("save_issue_scores", "n/a", "400")
                /\ UNCHANGED issueScoresDoc
           ELSE /\ issueScoresDoc' = [issues |-> (request.issueId :> request.scores)
                                                    @@ StoredIssueScores,
                                      lastUpdated |-> Timestamp]
                /\ lastOp' = Op("save_issue_scores", "n/a", "success")
        /\ output' = << >>
        /\ UNCHANGED <<extraction, analysisFiles, pagesDoc, issuesDoc, scoringDoc, overridesDoc,
                       correctionsDoc, riskFlagsDoc, gradingScoresDoc, finalGradeDoc, jobVars,
                       oracleRequest, input>>

\* DELETE /api/delete-submission: the files the handler unlinks. The rubric comments and
\* the prompt improvement analysis, which it unlinks too, are files no handler of this
\* model writes.
DeleteSubmission ==
    \E jobId \in {JobId, << >>} :
        IF jobId = << >>
        THEN /\ lastOp' = Op("delete_submission", "n/a", "400")
             /\ output' = << >>
             /\ UNCHANGED <<docVars, oracleRequest, input>>
        ELSE /\ extraction' = FALSE
             /\ analysisFiles' = [n \in PageNumbers |-> NoFile]
             /\ overridesDoc' = << >>
             /\ pagesDoc' = NoPages
             /\ issuesDoc' = NoIssues
             /\ gradingScoresDoc' = NoDocument
             /\ scoringDoc' = NoScoring
             /\ lastOp' = Op("delete_submission", "n/a", "success")
             /\ output' = [status |-> "success", jobId |-> jobId]
             /\ UNCHANGED <<correctionsDoc, riskFlagsDoc, finalGradeDoc, issueScoresDoc,
                            jobVars, oracleRequest, input>>

\* get_final_grade: 404 when final_grade.json holds nothing
GetFinalGrade ==
    IF finalGradeDoc = NoDocument THEN [status |-> "404"]
    ELSE [status |-> "ok", finalGrade |-> finalGradeDoc.finalGrade]

\* get_issue_scores
GetIssueScores == [ok |-> TRUE, issues |-> StoredIssueScores]

\* get_overrides
GetOverrides == [jobId |-> JobId, overrides |-> overridesDoc]

\* the risk pages get_ai_flags keeps: those with notes that are not auto-generated
ManualRiskPages(all_risk_pages) ==
    SelectSeq(all_risk_pages, LAMBDA page : page.notes # << >> /\ ~IsAutoNote(page.notes))

\* GET /api/get-ai-flags: the filtered list is returned, and written back when it is
\* shorter than the stored one
GetAiFlags ==
    /\ output' = [jobId |-> JobId, riskPages |-> ManualRiskPages(riskFlagsDoc),
                  totalRiskPages |-> Len(ManualRiskPages(riskFlagsDoc))]
    /\ riskFlagsDoc' = ManualRiskPages(riskFlagsDoc)
    /\ lastOp' = Op("get_ai_flags", "n/a", "ok")
    /\ UNCHANGED <<extraction, analysisFiles, pagesDoc, issuesDoc, scoringDoc, overridesDoc,
                   correctionsDoc, gradeVars, jobVars, oracleRequest, input>>

\* GET /api/get-issues: issues.json when it exists, else the Issues aggregated from
\* pages.json and saved, else nothing
GetIssues ==
    /\ IF issuesDoc.exists
       THEN /\ output' = [jobId |-> JobId, issues |-> issuesDoc.issues]
            /\ UNCHANGED issuesDoc
       ELSE IF pagesDoc.pages # << >>
       THEN /\ issuesDoc' = [exists |-> TRUE, issues |-> AggregateIssues(pagesDoc.pages)]
            /\ output' = [jobId |-> JobId, issues |-> AggregateIssues(pagesDoc.pages)]
       ELSE /\ output' = [jobId |-> JobId, issues |-> << >>]
            /\ UNCHANGED issuesDoc
    /\ lastOp' = Op("get_issues", "n/a", "ok")
    /\ UNCHANGED <<extraction, analysisFiles, pagesDoc, scoringDoc, hitlVars, oracleRequest,
                   input>>

\* what get_pages returns: pages.json, else the pages of the analysis files
PagesReturned == IF pagesDoc.exists THEN pagesDoc.pages ELSE SortedResults(analysisFiles, 1)

NextGrading ==
    \/ SaveGradingScores
    \/ CalculateGradingScoresEndpoint
    \/ SaveFinalGrade
    \/ SaveIssueScores
    \/ DeleteSubmission
    \/ GetAiFlags
    \/ GetIssues

SpecGrading == InitGrading /\ [][NextGrading]_vars

\* the components for which scores.json holds ta_points
OverriddenComponents ==
    IF gradingScoresDoc = NoDocument THEN {}
    ELSE {key \in DOMAIN gradingScoresDoc.scores :
             "ta_points" \in DOMAIN gradingScoresDoc.scores[key]}

\* C21: once save_grading_scores has stored ta_points / ta_comment for a component,
\* calculate_grading_scores_endpoint returns that component with its computed points
\* unchanged and with the stored ta_points and ta_comment next to them.
C21_OverrideBesideComputed ==
    lastOp.name = "calculate_grading_scores_endpoint" =>
        \A key \in OverriddenComponents \cap DOMAIN output.scores :
            /\ output.scores[key].points
                   = CalculateGradingScores(pagesDoc.pages, issuesDoc.issues)[key].points
            /\ "ta_points" \in DOMAIN output.scores[key]
            /\ output.scores[key].ta_points = gradingScoresDoc.scores[key].ta_points
            /\ "ta_comment" \in DOMAIN output.scores[key]
            /\ output.scores[key].ta_comment
                   = FieldOr(gradingScoresDoc.scores[key], "ta_comment", << >>)

(***************************************************************************)
(* Page records: re-analysis of a page and page-level corrections          *)
(***************************************************************************)
\* a page record with the optional keys main_heading, has_annotations, rubric_relevance
RichPage(id, n, role, frags, heading) ==
    Page(id, n, role, frags)
        @@ [main_heading |-> heading, has_annotations |-> "none",
            rubric_relevance |-> [coverage |-> "low"]]

\* a severity_summary page: the classifier adds the severity_summary block
SummaryPage(id, n, heading) ==
    RichPage(id, n, "severity_summary", << >>, heading)
        @@ [severity_summary |-> [is_summary |-> TRUE]]

\* the classifier's records of the two pages of the analysed job
AnalysedPages == <<RichPage("p01", 1, "violation_detail", <<FragA>>, "Findings"),
                   SummaryPage("p02", 2, "Summary")>>

\* what the page classifier answers when page n is analysed again: the call fails, or
\* it returns a record without the optional keys, under the page_id it chooses
PageResponses(n) ==
    {[ok |-> FALSE, fragments |-> << >>],
     [ok |-> TRUE, analysis |-> Page("page", n, "other", <<FragB>>)]}

\* the body of an update-page-review request
PageReviewRequests == {[override_reason |-> "wrong role"]}

\* the body of an update-page-metadata request: each of the three keys given or not
PageMetadataRequests ==
    {[main_heading |-> ""],
     [has_annotations |-> "high", rubric_relevance |-> [severity_analysis |-> "high"]]}

\* the page ids a reviewer addresses
RequestedPageIds == {"p01", "p03"}

\* the job after both pages were analysed and get_analysis_results was called
InitPages ==
    /\ extraction = TRUE
    /\ analysisFiles = [n \in PageNumbers |-> AnalysisFile(AnalysedPages[n])]
    /\ pagesDoc = [exists |-> TRUE, pages |-> AnalysedPages]
    /\ issuesDoc = [exists |-> TRUE, issues |-> AggregateIssues(AnalysedPages)]
    /\ scoringDoc = NoScoring
    /\ overridesDoc = << >>
    /\ correctionsDoc = << >>
    /\ riskFlagsDoc = << >>
    /\ gradingScoresDoc = NoDocument
    /\ finalGradeDoc = NoDocument
    /\ issueScoresDoc = NoDocument
    /\ jobFiles = << >>
    /\ calls = << >>
    /\ lastOp = Op("init", "n/a", "ok")
    /\ oracleRequest = << >>
    /\ input = << >>
    /\ output = << >>

\* PATCH /api/update-page-review
UpdatePageReview(pageId, request) ==
    LET idx == PageIndex(pagesDoc.pages, pageId)
        ta_review == [override_reason |-> request.override_reason,
                      ta_comment |-> IF "ta_comment" \in DOMAIN request
                                     THEN request.ta_comment ELSE None]
    IN  /\ IF ~pagesDoc.exists \/ pagesDoc.pages = << >> \/ idx = 0
           THEN /\ lastOp' = Op("update_page_review", "n/a", "404")
                /\ UNCHANGED pagesDoc
           ELSE /\ pagesDoc' = [pagesDoc EXCEPT !.pages[idx] =
                                    [ta_review |-> ta_review] @@ pagesDoc.pages[idx]]
                /\ lastOp' = Op("update_page_review", "n/a", "success")
        /\ UNCHANGED <<extraction, analysisFiles, issuesDoc, scoringDoc, hitlVars,
                       oracleRequest, input, output>>

\* the page after update_page_metadata applied the keys the request gives
PageWithMetadata(page, request) ==
    (IF "main_heading" \in DOMAIN request
     THEN [main_heading |-> IF request.main_heading # "" THEN request.main_heading ELSE None]
     ELSE << >>)
    @@ (IF "has_annotations" \in DOMAIN request
        THEN [has_annotations |-> request.has_annotations] ELSE << >>)
    @@ (IF "rubric_relevance" \in DOMAIN request
        THEN [rubric_relevance |->
                 request.rubric_relevance
                     @@ (IF "rubric_relevance" \in DOMAIN page THEN page.rubric_relevance
                         ELSE << >>)]
        ELSE << >>)
    @@ page

\* PATCH /api/update-page-metadata
UpdatePageMetadata(pageId, request) ==
    LET idx == PageIndex(pagesDoc.pages, pageId)
    IN  /\ IF ~pagesDoc.exists \/ pagesDoc.pages = << >> \/ idx = 0
           THEN /\ lastOp' = Op("update_page_metadata", "n/a", "404")
                /\ UNCHANGED pagesDoc
           ELSE /\ pagesDoc' = [pagesDoc EXCEPT !.pages[idx] =
                                    PageWithMetadata(pagesDoc.pages[idx], request)]
                /\ lastOp' = Op("update_page_metadata", "n/a", "success")
        /\ UNCHANGED <<extraction, analysisFiles, issuesDoc, scoringDoc, hitlVars,
                       oracleRequest, input, output>>

NextPages ==
    \/ GetAnalysisResults
    \/ \E pageId \in RequestedPageIds, request \in PageReviewRequests :
           UpdatePageReview(pageId, request)
    \/ \E pageId \in RequestedPageIds, request \in PageMetadataRequests :
           UpdatePageMetadata(pageId, request)
    \/ \E n \in PageNumbers, role \in ForcedRoles, h \in ForcedHeuristics :
           \E response \in PageResponses(n) :
               ReanalyzePageWithRole(DefaultPageId(n), role, h, response)

SpecPages == InitPages /\ [][NextPages]_vars

\* the pages document changed at position idx only, and the analysis file written for
\* that page holds the new analysis
OnlyTargetReplaced(idx) ==
    /\ Len(pagesDoc'.pages) = Len(pagesDoc.pages)
    /\ \A i \in 1..Len(pagesDoc.pages) : i # idx => pagesDoc'.pages[i] = pagesDoc.pages[i]
    /\ pagesDoc.pages[idx].page_number \in PageNumbers
    /\ analysisFiles'[pagesDoc.pages[idx].page_number].kind = "analysis"

\* C22 as claimed: reanalyze_page_with_role changes only the target page's record, and
\* that record afterwards is the new analysis under the original page_id, no key of
\* the previous record surviving.
C22_TargetIsNewAnalysis ==
    [][lastOp'.name = "reanalyze_page_with_role" =>
        \E idx \in 1..Len(pagesDoc.pages) :
            /\ OnlyTargetReplaced(idx)
            /\ pagesDoc'.pages[idx]
                   = [page_id |-> pagesDoc.pages[idx].page_id]
                         @@ analysisFiles'[pagesDoc.pages[idx].page_number].page]_vars

\* C22 as amended: reanalyze_page_with_role changes only the target page's record; that
\* record afterwards has every key of the new analysis with the new value, except
\* page_id, which keeps its original value, and it keeps every key of the previous
\* record that the new analysis does not carry, with its previous value.
C22_TargetUpdatedByNewAnalysis ==
    [][lastOp'.name = "reanalyze_page_with_role" =>
        \E idx \in 1..Len(pagesDoc.pages) :
            LET old == pagesDoc.pages[idx]
                new == analysisFiles'[old.page_number].page
                target == pagesDoc'.pages[idx]
            IN  /\ OnlyTargetReplaced(idx)
                /\ DOMAIN target = DOMAIN old \cup DOMAIN new
                /\ target.page_id = old.page_id
                /\ \A key \in DOMAIN new \ {"page_id"} : target[key] = new[key]
                /\ \A key \in DOMAIN old \ DOMAIN new : target[key] = old[key]]_vars

\* page 1, the only page ever analysed again, has just been analysed again, and its
\* record still carries the ta_review and the main_heading the new analysis lacks
C22_Witness ==
    /\ lastOp.name = "reanalyze_page_with_role"
    /\ analysisFiles[1].page.page_id = "page"
    /\ analysisFiles[2].page = AnalysedPages[2]
    /\ pagesDoc.pages[1].page_id = "p01"
    /\ "ta_review" \in DOMAIN pagesDoc.pages[1]
    /\ "main_heading" \in DOMAIN pagesDoc.pages[1]
    /\ DOMAIN analysisFiles[1].page \cap {"ta_review", "main_heading"} = {}

(***************************************************************************)
(* Failed recomputes                                                       *)
(***************************************************************************)
\* C23: a recompute that fails (no pages or no issues, the oracle call raises, the
\* answer cannot be parsed) leaves the persisted scoring document as it was, and a
\* recompute of a job without pages or without issues answers 404 and writes no
\* document.
C23_NoPartialScoring ==
    [][lastOp'.name = "recompute_scores" =>
        /\ lastOp'.status # "ok" => scoringDoc' = scoringDoc
        /\ (pagesDoc.pages = << >> \/ issuesDoc.issues = << >>) =>
               /\ lastOp'.status = "404"
               /\ UNCHANGED docVars]_vars

\* a recompute failed on a job whose scoring document had been saved by an earlier one
C23_Witness ==
    /\ lastOp.name = "recompute_scores"
    /\ lastOp.status = "500"
    /\ scoringDoc.exists

\* C27: a recompute with clear_reviews = true that fails after its clearing step (the
\* oracle call raises or the answer cannot be parsed) leaves the ta_reviews of the
\* persisted Issue list as they were before the call.
C27_FailedRecomputeKeepsReviews ==
    [][(lastOp'.name = "recompute_scores" /\ lastOp'.clear = "true"
            /\ lastOp'.status = "500") =>
        /\ Len(issuesDoc'.issues) = Len(issuesDoc.issues)
        /\ \A i \in 1..Len(issuesDoc.issues) :
               HasReview(issuesDoc.issues[i])
               => issuesDoc'.issues[i].ta_review = issuesDoc.issues[i].ta_review]_vars

(***************************************************************************)
(* The group a carried review belongs to                                   *)
(***************************************************************************)
\* C26: on an aggregation pass a ta_review is carried only onto an Issue of the group
\* (heuristic_id, issue_key) it was written for: the persisted Issue a rebuilt Issue
\* takes its ta_review from has the same heuristic_id and the same issue_key.
C26_ReviewStaysInGroup ==
    [][lastOp'.name \in AggregationPasses =>
        \A i \in 1..Len(issuesDoc'.issues) : \A j \in 1..Len(issuesDoc.issues) :
            (/\ HasReview(issuesDoc'.issues[i])
             /\ HasReview(issuesDoc.issues[j])
             /\ issuesDoc.issues[j].issue_id = issuesDoc'.issues[i].issue_id)
            => /\ issuesDoc'.issues[i].heuristic_id = issuesDoc.issues[j].heuristic_id
               /\ issuesDoc'.issues[i].issue_key = issuesDoc.issues[j].issue_key]_vars

(***************************************************************************)
(* Repeated overrides                                                      *)
(***************************************************************************)
\* page, field and values of an override record
OverrideKey(override) ==
    <<override.pageNumber, override.field, override.originalValue, override.overrideValue>>

\* C28: a save_override call that repeats a stored override, or whose correction is
\* already stored, answers with success, and adds neither a second override record
\* nor a second correction record.  Such a call is one that has a jobId and leaves the
\* corrections store as it is.
C28_SaveOverrideRepeatable ==
    [][(lastOp'.name = "save_override" /\ lastOp'.status # "400"
            /\ correctionsDoc' = correctionsDoc) =>
        /\ lastOp'.status = "success"
        /\ \A i, j \in 1..Len(overridesDoc') :
               OverrideKey(overridesDoc'[i]) = OverrideKey(overridesDoc'[j]) => i = j]_vars

(***************************************************************************)
(* Page-level corrections and get_analysis_results                         *)
(***************************************************************************)
\* the keys of a page record that update_page_review and update_page_metadata store
CorrectedKeys == {"ta_review", "main_heading", "has_annotations", "rubric_relevance"}

\* C29: a page's ta_review stored by update_page_review and the main_heading,
\* has_annotations and rubric_relevance stored by update_page_metadata are still in
\* the pages document after a later get_analysis_results: the record of the same
\* page_number has each of these keys with the value it had before the call.
C29_PageCorrectionsSurvive ==
    [][lastOp'.name = "get_analysis_results" =>
        \A i \in 1..Len(pagesDoc.pages) :
            \E j \in 1..Len(pagesDoc'.pages) :
                /\ pagesDoc'.pages[j].page_number = pagesDoc.pages[i].page_number
                /\ \A key \in CorrectedKeys \cap DOMAIN pagesDoc.pages[i] :
                       /\ key \in DOMAIN pagesDoc'.pages[j]
                       /\ pagesDoc'.pages[j][key] = pagesDoc.pages[i][key]]_vars

(***************************************************************************)
(* Deleting a submission                                                   *)
(***************************************************************************)
\* C30: once delete_submission has returned for the job, no document of the job
\* remains: get_final_grade reports not found, and get_issue_scores, get_ai_flags,
\* get_overrides, get_issues and get_pages return empty results.
C30_DeleteRemovesEverything ==
    (lastOp.name = "delete_submission" /\ lastOp.status = "success") =>
        /\ GetFinalGrade.status = "404"
        /\ GetIssueScores.issues = << >>
        /\ ManualRiskPages(riskFlagsDoc) = << >>
        /\ GetOverrides.overrides = << >>
        /\ ~issuesDoc.exists /\ pagesDoc.pages = << >>
        /\ PagesReturned = << >>

(***************************************************************************)
(* Two jobs served side by side                                            *)
(*                                                                         *)
(* A file name is a sequence of symbols: the job id, then the symbols the  *)
(* handlers append to it.  Each handler call is cut into its load and save *)
(* steps, and the calls of the two jobs take their steps in any order.     *)
(***************************************************************************)
JobA == <<"j">>

\* a job id that continues JobA's with the symbols of an analysis file name
JobB == <<"j", "_", "page", "_", "1">>

Jobs == {JobA, JobB}

\* get_job_file_path with every job's file under the same name
JobFilePath_Shared(job_id, filename) == <<"_", filename>>

\* base_dir / f"{job_id}_{filename}"
JobFilePath(job_id, filename) == job_id \o <<"_", filename>>

\* ANALYSIS_OUTPUT_DIR / f"{job_id}_page_{page_number}.json"
AnalysisFilePath(job_id, page_number) ==
    job_id \o <<"_", "page", "_">> \o Numeral(page_number) \o <<".json">>

\* the path is one of ANALYSIS_OUTPUT_DIR.glob(f"{jobId}_page_*.json")
GlobMatches(path, job_id) ==
    /\ StartsWith(path, job_id \o <<"_", "page", "_">>)
    /\ Len(path) > Len(job_id) + 3
    /\ path[Len(path)] = ".json"

\* the analysis files of the store: JobA's page 1 and JobB's page 2
AnalysisPaths == {AnalysisFilePath(JobA, 1), AnalysisFilePath(JobB, 2)}

DocPaths == {JobFilePath(job, filename) :
                job \in Jobs, filename \in {"pages.json", "issues.json", "scoring.json"}}

RECURSIVE GlobResults(_, _, _)
\* the structured_analysis of the analysis files the job's glob finds, by page_number
GlobResults(analyses, job_id, n) ==
    IF n > LastPage THEN << >>
    ELSE LET found == {path \in DOMAIN analyses :
                          /\ GlobMatches(path, job_id)
                          /\ analyses[path].exists
                          /\ analyses[path].kind = "analysis"
                          /\ analyses[path].page.page_number = n}
         IN  (IF found = {} THEN << >> ELSE <<analyses[CHOOSE path \in found : TRUE].page>>)
                 \o GlobResults(analyses, job_id, n + 1)

\* a call and the store after the call's next step
Stepped(files, call) == [files |-> files, call |-> call]

\* the next load or save step of a get_analysis_results call
StepGetAnalysisResults(files, job_id, call) ==
    CASE call.pc = "start" ->
             Stepped(files, [call EXCEPT !.pages = GlobResults(files.analyses, job_id, 1),
                                         !.pc = IF GlobResults(files.analyses, job_id, 1) = << >>
                                                THEN "done" ELSE "save_pages"])
      [] call.pc = "save_pages" ->
             Stepped([files EXCEPT !.docs[JobFilePath(job_id, "pages.json")] = call.pages],
                     [call EXCEPT !.pc = "load_issues"])
      [] call.pc = "load_issues" ->
             Stepped(files, [call EXCEPT !.existing = files.docs[JobFilePath(job_id, "issues.json")],
                                         !.pc = "save_issues"])
      [] call.pc = "save_issues" ->
             Stepped([files EXCEPT !.docs[JobFilePath(job_id, "issues.json")] =
                         MergeTaReviews(AggregateIssues(call.pages), call.existing)],
                     [call EXCEPT !.pc = "done"])

\* what call_grading_llm answers to the ScoringInput built from the pages and issues: the
\* answer is the model's output for that request
GradingAnswer(scoring_output, pages, issues) ==
    [output |-> scoring_output, pages |-> pages, issues |-> issues]

\* the next load or save step of a recompute_job_scores call
StepRecomputeJobScores(files, job_id, call) ==
    CASE call.pc = "start" ->
             Stepped(files, [call EXCEPT !.pages = files.docs[JobFilePath(job_id, "pages.json")],
                                         !.pc = "load_issues"])
      [] call.pc = "load_issues" ->
             Stepped(files,
                     [call EXCEPT !.issues = files.docs[JobFilePath(job_id, "issues.json")],
                                  !.pc = IF \/ call.pages = << >>
                                            \/ files.docs[JobFilePath(job_id, "issues.json")] = << >>
                                         THEN "done"
                                         ELSE IF call.clear THEN "clear_load" ELSE "oracle"])
      [] call.pc = "clear_load" ->
             Stepped(files,
                     [call EXCEPT !.existing = files.docs[JobFilePath(job_id, "issues.json")],
                                  !.pc = IF files.docs[JobFilePath(job_id, "issues.json")] = << >>
                                         THEN "oracle" ELSE "clear_save"])
      [] call.pc = "clear_save" ->
             Stepped([files EXCEPT !.docs[JobFilePath(job_id, "issues.json")] =
                         ClearTaReviews(call.existing)],
                     [call EXCEPT !.pc = "reload"])
      [] call.pc = "reload" ->
             Stepped(files, [call EXCEPT !.issues = files.docs[JobFilePath(job_id, "issues.json")],
                                         !.pc = "oracle"])
      [] call.pc = "oracle" ->
             Stepped(files, [call EXCEPT !.pc = IF call.outcome = "ok" THEN "save_scoring"
                                                ELSE "done"])
      [] call.pc = "save_scoring" ->
             Stepped([files EXCEPT !.docs[JobFilePath(job_id, "scoring.json")] =
                         [exists |-> TRUE,
                          scoring |-> GradingAnswer(call.scoring_output, call.pages, call.issues)]],
                     [call EXCEPT !.pc = "done"])

\* the next step of a call
StepCall(files, job_id, call) ==
    IF call.name = "get_analysis_results" THEN StepGetAnalysisResults(files, job_id, call)
    ELSE StepRecomputeJobScores(files, job_id, call)

RECURSIVE RunCall(_, _, _)
\* the store after the call has run from its first step to its last with no other call
\* in between
RunCall(files, job_id, call) ==
    IF call.pc = "done" THEN files
    ELSE RunCall(StepCall(files, job_id, call).files, job_id, StepCall(files, job_id, call).call)

\* a call that has not taken a step yet
NewCall(name, clear, outcome, scoring_output) ==
    [name |-> name, clear |-> clear, outcome |-> outcome, scoring_output |-> scoring_output,
     pc |-> "start", pages |-> << >>, issues |-> << >>, existing |-> << >>]

\* the calls a job may receive: an aggregation pass, or a recompute with or without
\* clearing whose oracle call succeeds or fails
CallsGiven(scoring_output) ==
    {NewCall("get_analysis_results", FALSE, "ok", scoring_output)}
        \cup {NewCall("recompute_job_scores", clear, outcome, scoring_output) :
                  clear \in BOOLEAN, outcome \in {"ok", "500"}}

\* the page the classifier recorded for the job's analysis file
JobPage(job_id) ==
    IF job_id = JobA THEN Page("p01", 1, "violation_detail", <<FragA>>)
    ELSE Page("p02", 2, "violation_detail", <<FragB>>)

\* the Issue list of the pages with a review on its first Issue
ReviewedIssues(pages) ==
    [AggregateIssues(pages) EXCEPT ![1].ta_review =
        [kind |-> "review", final_severity |-> "minor", final_score_0_4 |-> 4]]

\* what a job has on disk before the calls: nothing, its analysis file only, or the
\* analysis file with the aggregated and reviewed documents
JobStages == {"empty", "analysed", "reviewed"}

\* the store in which every job is at the given stage
StoreAt(stage) ==
    [analyses |->
        [path \in AnalysisPaths |->
            IF \E job \in Jobs : /\ path \in {AnalysisFilePath(job, 1), AnalysisFilePath(job, 2)}
                                  /\ stage[job] # "empty"
            THEN AnalysisFile(JobPage(CHOOSE job \in Jobs :
                     path \in {AnalysisFilePath(job, 1), AnalysisFilePath(job, 2)}))
            ELSE NoFile],
     docs |->
        [path \in DocPaths |->
            LET job == CHOOSE j \in Jobs :
                           path \in {JobFilePath(j, "pages.json"), JobFilePath(j, "issues.json"),
                                      JobFilePath(j, "scoring.json")}
            IN  IF path[Len(path)] = "scoring.json" THEN NoScoring
                ELSE IF stage[job] # "reviewed" THEN << >>
                ELSE IF path[Len(path)] = "pages.json" THEN <<JobPage(job)>>
                ELSE ReviewedIssues(<<JobPage(job)>>)]]

InitJobs ==
    /\ extraction = FALSE
    /\ analysisFiles = [n \in PageNumbers |-> NoFile]
    /\ pagesDoc = NoPages
    /\ issuesDoc = NoIssues
    /\ scoringDoc = NoScoring
    /\ overridesDoc = << >>
    /\ correctionsDoc = << >>
    /\ riskFlagsDoc = << >>
    /\ gradingScoresDoc = NoDocument
    /\ finalGradeDoc = NoDocument
    /\ issueScoresDoc = NoDocument
    /\ \E stage \in [Jobs -> JobStages] : jobFiles = StoreAt(stage)
    /\ \E a \in CallsGiven("s1"), b \in CallsGiven("s2") :
           calls = [job \in Jobs |-> IF job = JobA THEN a ELSE b]
    /\ input = [files |-> jobFiles, calls |-> calls]
    /\ lastOp = Op("init", "n/a", "ok")
    /\ oracleRequest = << >>
    /\ output = << >>

\* the call of a job takes its next step
TakeStep(job_id) ==
    /\ calls[job_id].pc # "done"
    /\ jobFiles' = StepCall(jobFiles, job_id, calls[job_id]).files
    /\ calls' = [calls EXCEPT ![job_id] = StepCall(jobFiles, job_id, calls[job_id]).call]
    /\ lastOp' = Op(calls[job_id].name, "n/a", calls[job_id].pc)
    /\ UNCHANGED <<extraction, analysisFiles, pagesDoc, issuesDoc, scoringDoc, overridesDoc,
                   correctionsDoc, riskFlagsDoc, gradeVars, oracleRequest, input, output>>

\* a step of a job's get_analysis_results call
GetAnalysisResultsStep ==
    \E job_id \in Jobs : calls[job_id].name = "get_analysis_results" /\ TakeStep(job_id)

\* a step of a job's recompute_job_scores call
RecomputeJobScoresStep ==
    \E job_id \in Jobs : calls[job_id].name = "recompute_job_scores" /\ TakeStep(job_id)

NextJobs == GetAnalysisResultsStep \/ RecomputeJobScoresStep

SpecJobs == InitJobs /\ [][NextJobs]_vars

\* the store after the two calls ran one after the other, the call of first before the
\* call of second
SerialRun(first, second) ==
    RunCall(RunCall(input.files, first, input.calls[first]), second, input.calls[second])

\* C24: when the call on JobA and the call on JobB, each an aggregation pass or a
\* recompute, have taken all their load and save steps in some interleaving, the pages,
\* issues and scoring documents of both jobs are those one of the two serial executions
\* of the same calls leaves.
C24_DistinctJobsSerializable ==
    (\A job \in Jobs : calls[job].pc = "done") =>
        \/ jobFiles.docs = SerialRun(JobA, JobB).docs
        \/ jobFiles.docs = SerialRun(JobB, JobA).docs

\* both calls are done: JobA's aggregation pass, whose glob also found JobB's analysis
\* file, has saved two pages, and JobB's recompute has cleared JobB's review and saved
\* its scoring
C24_Witness ==
    /\ \A job \in Jobs : calls[job].pc = "done"
    /\ calls[JobA].name = "get_analysis_results"
    /\ Len(jobFiles.docs[JobFilePath(JobA, "pages.json")]) = 2
    /\ calls[JobB].name = "recompute_job_scores"
    /\ input.files.docs[JobFilePath(JobB, "issues.json")] # jobFiles.docs[JobFilePath(JobB, "issues.json")]
    /\ jobFiles.docs[JobFilePath(JobB, "scoring.json")].exists
====
